---- MODULE Spec2Model ----
(***************************************************************************)
(* The authentication store of homeassistant/auth/auth_store.py            *)
(* (class AuthStore) as a state machine.                                   *)
(*                                                                         *)
(* Representation.                                                         *)
(*  - A Python dict is a sequence of records in insertion order, keyed by  *)
(*    the record's id field (DictSet / DictDel / Get below).               *)
(*  - models.User objects live in the heap user_objs, addressed by their   *)
(*    id (one object per id: uuid4 for created users, the persisted id     *)
(*    for loaded ones).  self._users is the sequence of ids `users`.  A    *)
(*    removed user stays in the heap: a caller may still hold the object.  *)
(*  - models.Credentials objects live in the heap cred_objs, addressed by  *)
(*    their position (object identity); 0 is the None reference.           *)
(*  - A user's groups are held as the ids of the Group objects of          *)
(*    self._groups (Group objects are never mutated).                      *)
(*  - None is "None" for strings and -1 for datetimes and floats.          *)
(*  - A datetime is a number of seconds; isoformat/parse_datetime go       *)
(*    through the table IsoStrings.                                        *)
(*  - A persisted record carries `keys`, the set of keys present in it.    *)
(***************************************************************************)
EXTENDS Integers, Sequences, FiniteSets, TLC

(***************************************************************************)
(* Program constants                                                       *)
(***************************************************************************)
GROUP_ID_ADMIN == "system-admin"
GROUP_ID_USER == "system-users"
GROUP_ID_READ_ONLY == "system-read-only"
GROUP_NAME_ADMIN == "Administrators"
GROUP_NAME_USER == "Users"
GROUP_NAME_READ_ONLY == "Read Only"
ADMIN_POLICY == "ADMIN_POLICY"
USER_POLICY == "USER_POLICY"
READ_ONLY_POLICY == "READ_ONLY_POLICY"
INITIAL_LOAD_SAVE_DELAY == 300
DEFAULT_SAVE_DELAY == 1
TOKEN_TYPE_NORMAL == "normal"
TOKEN_TYPE_SYSTEM == "system"
TOKEN_TYPE_LONG_LIVED_ACCESS_TOKEN == "long_lived_access_token"

None == "None"
NoneT == 0 - 1
NoneRef == 0
NoSave == 0 - 1

SystemGroupIds == {GROUP_ID_ADMIN, GROUP_ID_USER, GROUP_ID_READ_ONLY}

(***************************************************************************)
(* Bounds of the model                                                     *)
(***************************************************************************)
MaxNewUsers == 1
MaxNewTokens == 1
MaxNow == 1

(***************************************************************************)
(* Python dicts as sequences of records keyed by id                        *)
(***************************************************************************)
Range(s) == {s[i] : i \in 1..Len(s)}

Keys(d) == {d[i].id : i \in 1..Len(d)}

KeySeq(d) == [i \in 1..Len(d) |-> d[i].id]

HasKey(d, k) == \E i \in 1..Len(d) : d[i].id = k

Get(d, k) == d[CHOOSE i \in 1..Len(d) : d[i].id = k]

DictSet(d, rec) ==
    IF HasKey(d, rec.id)
    THEN [i \in 1..Len(d) |-> IF d[i].id = rec.id THEN rec ELSE d[i]]
    ELSE Append(d, rec)

DictDel(d, k) == SelectSeq(d, LAMBDA r : r.id # k)

RemoveAt(s, i) == SubSeq(s, 1, i - 1) \o SubSeq(s, i + 1, Len(s))

(***************************************************************************)
(* datetime.isoformat and dt_util.parse_datetime                           *)
(***************************************************************************)
IsoStrings ==
    << "2024-01-01T00:00:00+00:00", "2024-01-01T00:00:01+00:00",
       "2024-01-01T00:00:02+00:00", "2024-01-01T00:00:03+00:00" >>

isoformat(t) == IsoStrings[t + 1]

parse_datetime(s) ==
    IF \E i \in 1..Len(IsoStrings) : IsoStrings[i] = s
    THEN (CHOOSE i \in 1..Len(IsoStrings) : IsoStrings[i] = s) - 1
    ELSE NoneT

(***************************************************************************)
(* timedelta(seconds=...) and timedelta.total_seconds(): a timedelta is    *)
(* held normalised as days and seconds.                                    *)
(***************************************************************************)
timedelta(seconds) == [days |-> seconds \div 86400, seconds |-> seconds % 86400]

total_seconds(td) == td.days * 86400 + td.seconds

\* A JSON value whose Python type the loader inspects: a str, or not a str.
JStr(s) == [type |-> "str", s |-> s]
JNull == [type |-> "NoneType", s |-> ""]
JInt == [type |-> "int", s |-> ""]

(***************************************************************************)
(* System groups                                                           *)
(***************************************************************************)
Group(id, name, policy, system_generated) ==
    [id |-> id, name |-> name, policy |-> policy,
     system_generated |-> system_generated]

system_admin_group == Group(GROUP_ID_ADMIN, GROUP_NAME_ADMIN, ADMIN_POLICY, TRUE)

system_user_group == Group(GROUP_ID_USER, GROUP_NAME_USER, USER_POLICY, TRUE)

system_read_only_group ==
    Group(GROUP_ID_READ_ONLY, GROUP_NAME_READ_ONLY, READ_ONLY_POLICY, TRUE)

(***************************************************************************)
(* AuthStore._get_group_policy and AuthStore._initialize_groups            *)
(***************************************************************************)
DictGet(rec, key, value, default) == IF key \in rec.keys THEN value ELSE default

\* mutant: the persisted name and policy are used for system groups too
get_group_policy_persisted(group_dict) ==
    [policy |-> DictGet(group_dict, "policy", group_dict.policy, None),
     name |-> group_dict.name,
     system_generated |-> group_dict.id \in SystemGroupIds]

get_group_policy(group_dict) ==
    IF group_dict.id = GROUP_ID_ADMIN
    THEN [policy |-> ADMIN_POLICY, name |-> GROUP_NAME_ADMIN, system_generated |-> TRUE]
    ELSE IF group_dict.id = GROUP_ID_USER
    THEN [policy |-> USER_POLICY, name |-> GROUP_NAME_USER, system_generated |-> TRUE]
    ELSE IF group_dict.id = GROUP_ID_READ_ONLY
    THEN [policy |-> READ_ONLY_POLICY, name |-> GROUP_NAME_READ_ONLY,
          system_generated |-> TRUE]
    ELSE [policy |-> DictGet(group_dict, "policy", group_dict.policy, None),
          name |-> group_dict.name, system_generated |-> FALSE]

\* mutant: a group without a policy is loaded like any other
RECURSIVE initialize_groups_loop_all(_, _, _)
initialize_groups_loop_all(group_dicts, i, acc) ==
    IF i > Len(group_dicts) THEN acc
    ELSE LET group_dict == group_dicts[i]
             p == get_group_policy(group_dict)
         IN  initialize_groups_loop_all(group_dicts, i + 1,
                 [acc EXCEPT
                    !.groups = DictSet(@, Group(group_dict.id, p.name, p.policy,
                                                p.system_generated)),
                    !.has_admin_group = @ \/ group_dict.id = GROUP_ID_ADMIN,
                    !.has_user_group = @ \/ group_dict.id = GROUP_ID_USER,
                    !.has_read_only_group = @ \/ group_dict.id = GROUP_ID_READ_ONLY])

RECURSIVE initialize_groups_loop(_, _, _)
initialize_groups_loop(group_dicts, i, acc) ==
    IF i > Len(group_dicts) THEN acc
    ELSE LET group_dict == group_dicts[i]
             p == get_group_policy(group_dict)
         IN  IF p.policy = None /\ ~p.system_generated
             THEN initialize_groups_loop(group_dicts, i + 1,
                      [acc EXCEPT !.group_without_policy = group_dict.id])
             ELSE initialize_groups_loop(group_dicts, i + 1,
                      [acc EXCEPT
                         !.groups = DictSet(@, Group(group_dict.id, p.name, p.policy,
                                                     p.system_generated)),
                         !.has_admin_group = @ \/ group_dict.id = GROUP_ID_ADMIN,
                         !.has_user_group = @ \/ group_dict.id = GROUP_ID_USER,
                         !.has_read_only_group = @ \/ group_dict.id = GROUP_ID_READ_ONLY])

initialize_groups(data) ==
    initialize_groups_loop(data.groups, 1,
        [groups |-> <<>>, has_admin_group |-> FALSE, has_user_group |-> FALSE,
         has_read_only_group |-> FALSE, group_without_policy |-> None])

\* mutant: the migration never applies
migrate_users_to_admin_group_never(ig) == FALSE

migrate_users_to_admin_group(ig) ==
    ig.groups = <<>> /\ ig.group_without_policy = None

\* mutant: system groups missing from the document are not added
backfill_groups_none(ig) == ig.groups

backfill_groups(ig) ==
    LET g1 == IF ~ig.has_admin_group
              THEN DictSet(ig.groups, system_admin_group) ELSE ig.groups
        g2 == IF ~ig.has_read_only_group
              THEN DictSet(g1, system_read_only_group) ELSE g1
    IN  IF ~ig.has_user_group THEN DictSet(g2, system_user_group) ELSE g2

(***************************************************************************)
(* Entity model (homeassistant/auth/models.py), as constructed by the      *)
(* store                                                                   *)
(***************************************************************************)
User(id, name, groups, is_owner, is_active, system_generated, local_only) ==
    [id |-> id, name |-> name, groups |-> groups, is_owner |-> is_owner,
     is_active |-> is_active, system_generated |-> system_generated,
     local_only |-> local_only, credentials |-> <<>>, refresh_tokens |-> <<>>]

Credentials(id, auth_provider_type, auth_provider_id, data, is_new) ==
    [id |-> id, auth_provider_type |-> auth_provider_type,
     auth_provider_id |-> auth_provider_id, data |-> data, is_new |-> is_new]

(***************************************************************************)
(* AuthStore._get_user_groups and AuthStore._load_users                    *)
(***************************************************************************)
\* mutant: the user-group id is resolved as it is
RECURSIVE get_user_groups_loop_as_is(_, _, _, _)
get_user_groups_loop_as_is(group_ids, groups, i, acc) ==
    IF i > Len(group_ids) \/ acc.err # None THEN acc
    ELSE IF ~HasKey(groups, group_ids[i])
         THEN [acc EXCEPT !.err = "KeyError"]
         ELSE get_user_groups_loop_as_is(group_ids, groups, i + 1,
                  [acc EXCEPT !.user_groups = Append(@, group_ids[i])])

RECURSIVE get_user_groups_loop(_, _, _, _)
get_user_groups_loop(group_ids, groups, i, acc) ==
    IF i > Len(group_ids) \/ acc.err # None THEN acc
    ELSE LET group_id == IF group_ids[i] = GROUP_ID_USER
                         THEN GROUP_ID_ADMIN ELSE group_ids[i]
         IN  IF ~HasKey(groups, group_id)
             THEN [acc EXCEPT !.err = "KeyError"]
             ELSE get_user_groups_loop(group_ids, groups, i + 1,
                      [acc EXCEPT !.user_groups = Append(@, group_id)])

\* mutant: the migration appends the admin group to system-generated users too
get_user_groups_any_user(user_dict, groups, migrate_to_admin) ==
    LET r == get_user_groups_loop(
                 DictGet(user_dict, "group_ids", user_dict.group_ids, <<>>),
                 groups, 1, [err |-> None, user_groups |-> <<>>])
    IN  IF r.err = None /\ migrate_to_admin
        THEN [r EXCEPT !.user_groups = Append(@, GROUP_ID_ADMIN)]
        ELSE r

get_user_groups(user_dict, groups, migrate_to_admin) ==
    LET r == get_user_groups_loop(
                 DictGet(user_dict, "group_ids", user_dict.group_ids, <<>>),
                 groups, 1, [err |-> None, user_groups |-> <<>>])
    IN  IF r.err = None /\ ~user_dict.system_generated /\ migrate_to_admin
        THEN [r EXCEPT !.user_groups = Append(@, GROUP_ID_ADMIN)]
        ELSE r

RECURSIVE load_users(_, _, _, _, _)
load_users(users_data, groups, migrate_to_admin, i, acc) ==
    IF i > Len(users_data) \/ acc.err # None THEN acc
    ELSE LET user_dict == users_data[i]
             g == get_user_groups(user_dict, groups, migrate_to_admin)
         IN  IF g.err # None THEN [acc EXCEPT !.err = g.err]
             ELSE load_users(users_data, groups, migrate_to_admin, i + 1,
                      [acc EXCEPT !.users = DictSet(@,
                          User(user_dict.id, user_dict.name, g.user_groups,
                               user_dict.is_owner, user_dict.is_active,
                               user_dict.system_generated,
                               DictGet(user_dict, "local_only",
                                       user_dict.local_only, FALSE)))])

(***************************************************************************)
(* AuthStore._load_credentials                                             *)
(* acc.credentials is the local dict id -> Credentials object (a heap      *)
(* reference); acc.heap is the heap of Credentials objects.                *)
(***************************************************************************)
\* mutant: a credential record of an unknown user is skipped
RECURSIVE load_credentials_skipping(_, _, _)
load_credentials_skipping(credentials_data, i, acc) ==
    IF i > Len(credentials_data) \/ acc.err # None THEN acc
    ELSE LET cred_dict == credentials_data[i]
             credential == Credentials(cred_dict.id, cred_dict.auth_provider_type,
                                       cred_dict.auth_provider_id, cred_dict.data,
                                       FALSE)
             ref == Len(acc.heap) + 1
         IN  IF ~HasKey(acc.users, cred_dict.user_id)
             THEN load_credentials_skipping(credentials_data, i + 1, acc)
             ELSE load_credentials_skipping(credentials_data, i + 1,
                      [acc EXCEPT
                         !.heap = Append(@, credential),
                         !.credentials = DictSet(@, [id |-> cred_dict.id, ref |-> ref]),
                         !.users = DictSet(@,
                             [Get(acc.users, cred_dict.user_id) EXCEPT
                                 !.credentials = Append(@, ref)])])

RECURSIVE load_credentials(_, _, _)
load_credentials(credentials_data, i, acc) ==
    IF i > Len(credentials_data) \/ acc.err # None THEN acc
    ELSE LET cred_dict == credentials_data[i]
             credential == Credentials(cred_dict.id, cred_dict.auth_provider_type,
                                       cred_dict.auth_provider_id, cred_dict.data,
                                       FALSE)
             ref == Len(acc.heap) + 1
         IN  IF ~HasKey(acc.users, cred_dict.user_id)
             THEN [acc EXCEPT !.err = "KeyError"]
             ELSE load_credentials(credentials_data, i + 1,
                      [acc EXCEPT
                         !.heap = Append(@, credential),
                         !.credentials = DictSet(@, [id |-> cred_dict.id, ref |-> ref]),
                         !.users = DictSet(@,
                             [Get(acc.users, cred_dict.user_id) EXCEPT
                                 !.credentials = Append(@, ref)])])

(***************************************************************************)
(* AuthStore._load_refresh_tokens                                          *)
(***************************************************************************)
\* mutant: the persisted token_type is ignored
token_type_by_client_id(rt_dict) ==
    IF rt_dict.client_id = None THEN TOKEN_TYPE_SYSTEM ELSE TOKEN_TYPE_NORMAL

\* rt_dict.get("token_type", <default by client_id>) (lines 489-494)
token_type_of(rt_dict) ==
    DictGet(rt_dict, "token_type", rt_dict.token_type,
            IF rt_dict.client_id = None THEN TOKEN_TYPE_SYSTEM ELSE TOKEN_TYPE_NORMAL)

load_refresh_token(rt_dict, created_at, credentials) ==
    LET last_used_at_raw == DictGet(rt_dict, "last_used_at", rt_dict.last_used_at, JNull)
        credential_id == rt_dict.credential_id
    IN  [id |-> rt_dict.id,
         user_id |-> rt_dict.user_id,
         client_id |-> rt_dict.client_id,
         client_name |-> DictGet(rt_dict, "client_name", rt_dict.client_name, None),
         client_icon |-> DictGet(rt_dict, "client_icon", rt_dict.client_icon, None),
         token_type |-> token_type_of(rt_dict),
         created_at |-> created_at,
         access_token_expiration |-> timedelta(rt_dict.access_token_expiration),
         token |-> rt_dict.token,
         jwt_key |-> rt_dict.jwt_key,
         last_used_at |-> IF last_used_at_raw.type = "str"
                          THEN parse_datetime(last_used_at_raw.s) ELSE NoneT,
         last_used_ip |-> DictGet(rt_dict, "last_used_ip", rt_dict.last_used_ip, None),
         expire_at |-> DictGet(rt_dict, "expire_at", rt_dict.expire_at, NoneT),
         credential |-> IF "credential_id" \in rt_dict.keys
                           /\ HasKey(credentials, credential_id)
                        THEN Get(credentials, credential_id).ref ELSE NoneRef,
         version |-> DictGet(rt_dict, "version", rt_dict.version, None)]

\* mutant: a record without jwt_key or with a bad created_at aborts the load
load_refresh_tokens_step_strict(rt_dict, acc) ==
    LET created_at_str == DictGet(rt_dict, "created_at", rt_dict.created_at, JNull)
        created_at == parse_datetime(created_at_str.s)
    IN  IF "jwt_key" \notin rt_dict.keys \/ created_at_str.type # "str"
           \/ created_at = NoneT
        THEN [acc EXCEPT !.err = "ValueError"]
        ELSE IF ~HasKey(acc.users, rt_dict.user_id)
        THEN [acc EXCEPT !.err = "KeyError"]
        ELSE [acc EXCEPT !.users = DictSet(@,
                 [Get(acc.users, rt_dict.user_id) EXCEPT
                     !.refresh_tokens = DictSet(@,
                         load_refresh_token(rt_dict, created_at, acc.credentials))])]

\* one iteration of the loop over tokens_data (lines 467-525)
load_refresh_tokens_step(rt_dict, acc) ==
    LET created_at_str == DictGet(rt_dict, "created_at", rt_dict.created_at, JNull)
        created_at == parse_datetime(created_at_str.s)
    IN  IF "jwt_key" \notin rt_dict.keys
        THEN acc
        ELSE IF created_at_str.type # "str"
        THEN [acc EXCEPT !.log = Append(@, "invalid created_at type")]
        ELSE IF created_at = NoneT
        THEN [acc EXCEPT !.log = Append(@, "invalid created_at")]
        ELSE IF ~HasKey(acc.users, rt_dict.user_id)
        THEN [acc EXCEPT !.err = "KeyError"]
        ELSE [acc EXCEPT !.users = DictSet(@,
                 [Get(acc.users, rt_dict.user_id) EXCEPT
                     !.refresh_tokens = DictSet(@,
                         load_refresh_token(rt_dict, created_at, acc.credentials))])]

RECURSIVE load_refresh_tokens(_, _, _)
load_refresh_tokens(tokens_data, i, acc) ==
    IF i > Len(tokens_data) \/ acc.err # None THEN acc
    ELSE load_refresh_tokens(tokens_data, i + 1,
                             load_refresh_tokens_step(tokens_data[i], acc))

(***************************************************************************)
(* The reconstruction part of AuthStore.async_load (lines 327-347): from   *)
(* the persisted dict `data` and the current Credentials heap to the local *)
(* groups and users, or the error that aborts it.                          *)
(***************************************************************************)
load_data(data, heap) ==
    LET has_groups == initialize_groups(data)
        migrate == migrate_users_to_admin_group(has_groups)
        groups == backfill_groups(has_groups)
        u == load_users(data.users, groups, migrate, 1, [err |-> None, users |-> <<>>])
        c == load_credentials(data.credentials, 1,
                 [err |-> u.err, users |-> u.users, credentials |-> <<>>,
                  heap |-> heap])
        t == load_refresh_tokens(data.refresh_tokens, 1,
                 [err |-> c.err, users |-> c.users, credentials |-> c.credentials,
                  log |-> <<>>])
    IN  [err |-> t.err, groups |-> groups, users |-> t.users, heap |-> c.heap,
         log |-> t.log, migrate |-> migrate]

(***************************************************************************)
(* AuthStore._data_to_save                                                 *)
(***************************************************************************)
UserKeys == {"id", "group_ids", "is_owner", "is_active", "name",
             "system_generated", "local_only"}

TokenKeys == {"id", "user_id", "client_id", "client_name", "client_icon",
              "token_type", "created_at", "access_token_expiration", "token",
              "jwt_key", "last_used_at", "last_used_ip", "expire_at",
              "credential_id", "version"}

save_user(user) ==
    [id |-> user.id, group_ids |-> user.groups, is_owner |-> user.is_owner,
     is_active |-> user.is_active, name |-> user.name,
     system_generated |-> user.system_generated, local_only |-> user.local_only,
     keys |-> UserKeys]

\* mutant: the policy is written for every group
save_group_with_policy(group) ==
    [id |-> group.id, name |-> group.name, policy |-> group.policy,
     keys |-> {"id", "name", "policy"}]

save_group(group) ==
    IF ~group.system_generated
    THEN [id |-> group.id, name |-> group.name, policy |-> group.policy,
          keys |-> {"id", "name", "policy"}]
    ELSE [id |-> group.id, name |-> group.name, policy |-> None,
          keys |-> {"id", "name"}]

save_credential(user, credential) ==
    [id |-> credential.id, user_id |-> user.id,
     auth_provider_type |-> credential.auth_provider_type,
     auth_provider_id |-> credential.auth_provider_id,
     data |-> credential.data,
     keys |-> {"id", "user_id", "auth_provider_type", "auth_provider_id", "data"}]

save_refresh_token(user, refresh_token, heap) ==
    [id |-> refresh_token.id, user_id |-> user.id,
     client_id |-> refresh_token.client_id,
     client_name |-> refresh_token.client_name,
     client_icon |-> refresh_token.client_icon,
     token_type |-> refresh_token.token_type,
     created_at |-> JStr(isoformat(refresh_token.created_at)),
     access_token_expiration |-> total_seconds(refresh_token.access_token_expiration),
     token |-> refresh_token.token,
     jwt_key |-> refresh_token.jwt_key,
     last_used_at |-> IF refresh_token.last_used_at # NoneT
                      THEN JStr(isoformat(refresh_token.last_used_at)) ELSE JNull,
     last_used_ip |-> refresh_token.last_used_ip,
     expire_at |-> refresh_token.expire_at,
     credential_id |-> IF refresh_token.credential # NoneRef
                       THEN heap[refresh_token.credential].id ELSE None,
     version |-> refresh_token.version,
     keys |-> TokenKeys]

RECURSIVE save_credentials(_, _, _)
save_credentials(us, heap, i) ==
    IF i > Len(us) THEN <<>>
    ELSE [k \in 1..Len(us[i].credentials) |->
             save_credential(us[i], heap[us[i].credentials[k]])]
         \o save_credentials(us, heap, i + 1)

RECURSIVE save_refresh_tokens(_, _, _)
save_refresh_tokens(us, heap, i) ==
    IF i > Len(us) THEN <<>>
    ELSE [k \in 1..Len(us[i].refresh_tokens) |->
             save_refresh_token(us[i], us[i].refresh_tokens[k], heap)]
         \o save_refresh_tokens(us, heap, i + 1)

\* mutant: the groups are not written
data_to_save_without_groups(us, gs, heap) ==
    [users |-> [i \in 1..Len(us) |-> save_user(us[i])],
     groups |-> <<>>,
     credentials |-> save_credentials(us, heap, 1),
     refresh_tokens |-> save_refresh_tokens(us, heap, 1)]

\* us: self._users.values(); gs: self._groups.values(); heap: Credentials objects
data_to_save(us, gs, heap) ==
    [users |-> [i \in 1..Len(us) |-> save_user(us[i])],
     groups |-> [i \in 1..Len(gs) |-> save_group(gs[i])],
     credentials |-> save_credentials(us, heap, 1),
     refresh_tokens |-> save_refresh_tokens(us, heap, 1)]

(***************************************************************************)
(* State                                                                   *)
(***************************************************************************)
VARIABLES
    loaded,               \* self._loaded
    load_pc,              \* where the async_load coroutine is: "idle", "reading"
                          \* (suspended in self._store.async_load()), "done", "failed"
    perm_lookup,          \* self._perm_lookup has been assigned
    installed,            \* self._users and self._groups are dicts (FALSE: None)
    users,                \* self._users: the ids, in dict order
    user_objs,            \* heap of models.User objects (dict keyed by id)
    groups,               \* self._groups
    token_id_to_user_id,  \* self._token_id_to_user_id: records [id, user_id]
    cred_objs,            \* heap of models.Credentials objects
    stored,               \* what the Store adapter holds on disk
    pending_save,         \* delay of the adapter's pending delayed save, or NoSave
    last_call,            \* the last call: its name, error raised, value returned,
                          \* the delays it passed to async_delay_save, and the
                          \* number of hmac.compare_digest calls it made
    n_users,              \* User objects created by async_create_user (uuid source)
    n_tokens,             \* RefreshToken objects created (uuid / secret source)
    now,                  \* dt_util.utcnow()
    n_calls               \* state-changing calls the callers have made (SpecOps)

vars == << loaded, load_pc, perm_lookup, installed, users, user_objs, groups,
           token_id_to_user_id, cred_objs, stored, pending_save, last_call,
           n_users, n_tokens, now, n_calls >>

store_vars == << loaded, load_pc, perm_lookup, installed, users, user_objs, groups,
                 token_id_to_user_id, cred_objs, stored, pending_save,
                 n_users, n_tokens, now >>

\* uuid.uuid4().hex and secrets.token_hex(64): fresh values, never repeated
UserUuids == << "user-1", "user-2", "user-3", "user-4" >>
TokenUuids == << "token-1", "token-2", "token-3", "token-4" >>
TokenSecrets == << "secret-1", "secret-2", "secret-3", "secret-4" >>
JwtKeys == << "jwt-1", "jwt-2", "jwt-3", "jwt-4" >>

Call(op, arg, err, value, saves, compares) ==
    [op |-> op, arg |-> arg, err |-> err, value |-> value, saves |-> saves,
     compares |-> compares]

Returned(op, arg, value, saves) == Call(op, arg, None, value, saves, 0)

Raised(op, arg, err) == Call(op, arg, err, None, <<>>, 0)

\* self._users.values()
UserValues == [i \in 1..Len(users) |-> Get(user_objs, users[i])]

(***************************************************************************)
(* Store.async_delay_save: the adapter keeps one pending save and honours  *)
(* the lower of the delays requested (comment at lines 33-39).             *)
(***************************************************************************)
\* mutant: the adapter honours the higher of the delays
async_delay_save_longest(pending, delay) ==
    IF pending = NoSave \/ delay > pending THEN delay ELSE pending

\* pending is the time left until the adapter writes, NoSave when no write is
\* pending
async_delay_save(pending, delay) ==
    IF pending = NoSave \/ delay < pending THEN delay ELSE pending

\* mutant: no save is requested
async_schedule_save_never(delay) == UNCHANGED pending_save

\* AuthStore._async_schedule_save
async_schedule_save(delay) ==
    pending_save' = async_delay_save(pending_save, delay)

(***************************************************************************)
(* AuthStore._build_token_id_to_user_id                                    *)
(***************************************************************************)
\* mutant: the index is left empty
build_token_id_to_user_id_empty(us, i, acc) == <<>>

RECURSIVE build_token_id_to_user_id(_, _, _)
build_token_id_to_user_id(us, i, acc) ==
    IF i > Len(us) THEN acc
    ELSE LET RECURSIVE add(_, _)
             add(k, a) == IF k > Len(us[i].refresh_tokens) THEN a
                          ELSE add(k + 1, DictSet(a, [id |-> us[i].refresh_tokens[k].id,
                                                     user_id |-> us[i].id]))
         IN  build_token_id_to_user_id(us, i + 1, add(1, acc))

(***************************************************************************)
(* AuthStore._set_defaults                                                 *)
(***************************************************************************)
\* mutant: the read-only group is left out
set_defaults_without_read_only ==
    /\ users' = <<>>
    /\ groups' = << system_admin_group, system_user_group >>
    /\ installed' = TRUE
    /\ token_id_to_user_id' = build_token_id_to_user_id(<<>>, 1, <<>>)

set_defaults ==
    /\ users' = <<>>
    /\ groups' = << system_admin_group, system_user_group, system_read_only_group >>
    /\ installed' = TRUE
    /\ token_id_to_user_id' = build_token_id_to_user_id(<<>>, 1, <<>>)

(***************************************************************************)
(* AuthStore.async_load, up to its suspension in self._store.async_load()  *)
(***************************************************************************)
\* mutant: no already-loaded check
async_load_again ==
    /\ loaded' = TRUE
    /\ load_pc' = "reading"
    /\ last_call' = Call("async_load", None, None, "suspended", <<>>, 0)
    /\ UNCHANGED << perm_lookup, installed, users, user_objs, groups,
                    token_id_to_user_id, cred_objs, stored, pending_save,
                    n_users, n_tokens, now, n_calls >>

async_load ==
    IF loaded
    THEN /\ last_call' = Raised("async_load", None, "RuntimeError")
         /\ UNCHANGED << store_vars, n_calls >>
    ELSE /\ load_pc = "idle"
         /\ loaded' = TRUE
         /\ load_pc' = "reading"
         /\ last_call' = Call("async_load", None, None, "suspended", <<>>, 0)
         /\ UNCHANGED << perm_lookup, installed, users, user_objs, groups,
                         token_id_to_user_id, cred_objs, stored, pending_save,
                         n_users, n_tokens, now, n_calls >>

(***************************************************************************)
(* AuthStore.async_load, from the adapter's answer to its return           *)
(***************************************************************************)
\* stored.kind: "absent" (the adapter returns None), "malformed" (data that is
\* no dict), "dict", "no users" (a dict without the key "users": data["users"]
\* at line 342 raises KeyError), "unreadable" (the adapter's read raises, and
\* the await at line 318 raises to the caller of async_load)
async_load_resume ==
    /\ load_pc = "reading"
    /\ perm_lookup' = (stored.kind # "unreadable" \/ perm_lookup)
    /\ IF stored.kind = "unreadable"
       THEN /\ load_pc' = "failed"
            /\ last_call' = Raised("async_load:resume", None, "StoreError")
            /\ UNCHANGED << installed, users, user_objs, groups,
                            token_id_to_user_id, cred_objs, pending_save >>
       ELSE IF stored.kind \in {"absent", "malformed"}
       THEN /\ set_defaults
            /\ load_pc' = "done"
            /\ last_call' = Returned("async_load:resume", None, None, <<>>)
            /\ UNCHANGED << user_objs, cred_objs, pending_save >>
       ELSE LET r == IF stored.kind = "no users"
                     THEN [err |-> "KeyError"]
                     ELSE load_data(stored.data, cred_objs)
            IN  IF r.err # None
                THEN /\ load_pc' = "failed"
                     /\ last_call' = Raised("async_load:resume", None, r.err)
                     /\ UNCHANGED << installed, users, user_objs, groups,
                                     token_id_to_user_id, cred_objs, pending_save >>
                ELSE /\ groups' = r.groups
                     /\ users' = KeySeq(r.users)
                     /\ user_objs' = r.users
                     /\ cred_objs' = r.heap
                     /\ installed' = TRUE
                     /\ token_id_to_user_id' =
                            build_token_id_to_user_id(r.users, 1, <<>>)
                     /\ async_schedule_save(INITIAL_LOAD_SAVE_DELAY)
                     /\ load_pc' = "done"
                     /\ last_call' = Returned("async_load:resume", None, None,
                                              << INITIAL_LOAD_SAVE_DELAY >>)
    /\ UNCHANGED << loaded, stored, n_users, n_tokens, now, n_calls >>

(***************************************************************************)
(* Optional arguments: << >> is None, << v >> is the value v               *)
(***************************************************************************)
\* mutant: a value that is given is ignored
OptIgnored(arg, default) == default

Opt(arg, default) == IF arg = <<>> THEN default ELSE arg[1]

\* The group lookup loops of async_create_user (94-97) and async_update_user
\* (159-162): self._groups.get(group_id) for each id, in order.
\* mutant: an id that names no group is skipped
RECURSIVE resolve_group_ids_lenient(_, _, _)
resolve_group_ids_lenient(group_ids, i, acc) ==
    IF i > Len(group_ids) THEN [err |-> None, groups |-> acc]
    ELSE IF ~installed THEN [err |-> "AttributeError", groups |-> acc]
    ELSE IF ~HasKey(groups, group_ids[i])
    THEN resolve_group_ids_lenient(group_ids, i + 1, acc)
    ELSE resolve_group_ids_lenient(group_ids, i + 1, Append(acc, group_ids[i]))

RECURSIVE resolve_group_ids(_, _, _)
resolve_group_ids(group_ids, i, acc) ==
    IF i > Len(group_ids) THEN [err |-> None, groups |-> acc]
    ELSE IF ~installed THEN [err |-> "AttributeError", groups |-> acc]
    ELSE IF ~HasKey(groups, group_ids[i]) THEN [err |-> "ValueError", groups |-> acc]
    ELSE resolve_group_ids(group_ids, i + 1, Append(acc, group_ids[i]))

(***************************************************************************)
(* AuthStore.async_link_user: its effect on the two heaps                  *)
(***************************************************************************)
link_user_objs(objs, user_id, credentials) ==
    DictSet(objs, [Get(objs, user_id) EXCEPT !.credentials = Append(@, credentials)])

\* mutant: is_new is left as it is
link_cred_objs_still_new(heap, credentials) == heap

link_cred_objs(heap, credentials) ==
    [heap EXCEPT ![credentials].is_new = FALSE]

async_link_user(user, credentials) ==
    /\ user_objs' = link_user_objs(user_objs, user, credentials)
    /\ async_schedule_save(DEFAULT_SAVE_DELAY)
    /\ cred_objs' = link_cred_objs(cred_objs, credentials)
    /\ last_call' = Returned("async_link_user",
                             [user |-> user, credentials |-> credentials], None,
                             << DEFAULT_SAVE_DELAY >>)
    /\ UNCHANGED << loaded, load_pc, perm_lookup, installed, users, groups,
                    token_id_to_user_id, stored, n_users, n_tokens, now >>

(***************************************************************************)
(* AuthStore.async_create_user                                             *)
(***************************************************************************)
async_create_user(name, is_owner, is_active, system_generated, credentials, group_ids, local_only) ==
    LET g == resolve_group_ids(group_ids, 1, <<>>)
        id == UserUuids[n_users + 1]
        new_user == User(id, name, g.groups, Opt(is_owner, FALSE),
                         Opt(is_active, FALSE), Opt(system_generated, FALSE),
                         Opt(local_only, FALSE))
        op == "async_create_user"
    IN  IF g.err # None \/ ~perm_lookup \/ ~installed
        THEN /\ last_call' = Raised(op, group_ids,
                                    IF g.err # None THEN g.err
                                    ELSE IF ~perm_lookup THEN "AttributeError"
                                    ELSE "TypeError")
             /\ UNCHANGED store_vars
        ELSE /\ users' = Append(users, id)
             /\ n_users' = n_users + 1
             /\ async_schedule_save(DEFAULT_SAVE_DELAY)
             /\ last_call' = Returned(op, group_ids, id, << DEFAULT_SAVE_DELAY >>)
             /\ IF credentials = NoneRef
                THEN /\ user_objs' = DictSet(user_objs, new_user)
                     /\ UNCHANGED cred_objs
                ELSE /\ user_objs' = link_user_objs(DictSet(user_objs, new_user),
                                                    id, credentials)
                     /\ cred_objs' = link_cred_objs(cred_objs, credentials)
             /\ UNCHANGED << loaded, load_pc, perm_lookup, installed, groups,
                             token_id_to_user_id, stored, n_tokens, now >>

(***************************************************************************)
(* AuthStore.async_remove_user                                             *)
(* del self._token_id_to_user_id[refresh_token_id] for each token id of    *)
(* the user, in order; a missing key raises KeyError and ends the loop     *)
(* with the entries deleted so far gone.                                   *)
(***************************************************************************)
\* mutant: the index entries of the removed user are left behind
remove_user_tokens_kept(refresh_tokens, i, index) ==
    [err |-> None, index |-> index]

RECURSIVE remove_user_tokens(_, _, _)
remove_user_tokens(refresh_tokens, i, index) ==
    IF i > Len(refresh_tokens) THEN [err |-> None, index |-> index]
    ELSE IF ~HasKey(index, refresh_tokens[i].id)
    THEN [err |-> "KeyError", index |-> index]
    ELSE remove_user_tokens(refresh_tokens, i + 1,
                            DictDel(index, refresh_tokens[i].id))

pop_user(us, id) == SelectSeq(us, LAMBDA k : k # id)

async_remove_user(user) ==
    LET op == "async_remove_user"
        r == remove_user_tokens(Get(user_objs, user).refresh_tokens, 1,
                                token_id_to_user_id)
    IN  IF ~installed \/ user \notin Range(users)
        THEN /\ last_call' = Raised(op, user, IF ~installed THEN "AttributeError"
                                              ELSE "KeyError")
             /\ UNCHANGED store_vars
        ELSE /\ users' = pop_user(users, user)
             /\ token_id_to_user_id' = r.index
             /\ IF r.err # None
                THEN /\ last_call' = Raised(op, user, r.err)
                     /\ UNCHANGED << user_objs, pending_save >>
                ELSE /\ user_objs' = DictSet(user_objs,
                            [Get(user_objs, user) EXCEPT !.refresh_tokens = <<>>])
                     /\ async_schedule_save(DEFAULT_SAVE_DELAY)
                     /\ last_call' = Returned(op, user, None, << DEFAULT_SAVE_DELAY >>)
             /\ UNCHANGED << loaded, load_pc, perm_lookup, installed, groups,
                             cred_objs, stored, n_users, n_tokens, now >>

(***************************************************************************)
(* AuthStore.async_update_user                                             *)
(***************************************************************************)
async_update_user(user, name, is_active, group_ids, local_only) ==
    LET op == "async_update_user"
        arg == [user |-> user, name |-> name, is_active |-> is_active,
                group_ids |-> group_ids, local_only |-> local_only]
        g == resolve_group_ids(Opt(group_ids, <<>>), 1, <<>>)
        u == Get(user_objs, user)
    IN  IF group_ids # <<>> /\ g.err # None
        THEN /\ last_call' = Raised(op, arg, g.err)
             /\ UNCHANGED store_vars
        ELSE /\ user_objs' = DictSet(user_objs,
                    [u EXCEPT !.groups = IF group_ids # <<>> THEN g.groups ELSE @,
                              !.name = IF name # None THEN name ELSE @,
                              !.is_active = Opt(is_active, @),
                              !.local_only = Opt(local_only, @)])
             /\ async_schedule_save(DEFAULT_SAVE_DELAY)
             /\ last_call' = Returned(op, arg, None, << DEFAULT_SAVE_DELAY >>)
             /\ UNCHANGED << loaded, load_pc, perm_lookup, installed, users, groups,
                             token_id_to_user_id, cred_objs, stored, n_users,
                             n_tokens, now >>

(***************************************************************************)
(* AuthStore.async_create_refresh_token                                    *)
(***************************************************************************)
HA_VERSION == "2024.1.0"

ACCESS_TOKEN_EXPIRATION == timedelta(30 * 60)

RefreshToken(id, user_id, client_id, client_name, client_icon, token_type, access_token_expiration, expire_at, credential) ==
    [id |-> id, user_id |-> user_id, client_id |-> client_id,
     client_name |-> client_name, client_icon |-> client_icon,
     token_type |-> token_type, created_at |-> now,
     access_token_expiration |-> access_token_expiration,
     token |-> TokenSecrets[n_tokens + 1], jwt_key |-> JwtKeys[n_tokens + 1],
     last_used_at |-> NoneT, last_used_ip |-> None, expire_at |-> expire_at,
     credential |-> credential, version |-> HA_VERSION]

\* `if client_name:` / `if client_icon:` -- an empty string is not passed on
Truthy(str) == IF str = None \/ str = "" THEN None ELSE str

async_create_refresh_token(user, client_id, client_name, client_icon, token_type, access_token_expiration, expire_at, credential) ==
    LET token_id == TokenUuids[n_tokens + 1]
        refresh_token == RefreshToken(token_id, user, client_id, Truthy(client_name),
                                      Truthy(client_icon), token_type,
                                      access_token_expiration, expire_at, credential)
    IN  /\ user_objs' = DictSet(user_objs,
               [Get(user_objs, user) EXCEPT
                   !.refresh_tokens = DictSet(@, refresh_token)])
        /\ token_id_to_user_id' =
               DictSet(token_id_to_user_id, [id |-> token_id, user_id |-> user])
        /\ n_tokens' = n_tokens + 1
        /\ async_schedule_save(DEFAULT_SAVE_DELAY)
        /\ last_call' = Returned("async_create_refresh_token", user, token_id,
                                 << DEFAULT_SAVE_DELAY >>)
        /\ UNCHANGED << loaded, load_pc, perm_lookup, installed, users, groups,
                        cred_objs, stored, n_users, now >>

(***************************************************************************)
(* AuthStore.async_remove_refresh_token                                    *)
(***************************************************************************)
async_remove_refresh_token(refresh_token_id) ==
    LET op == "async_remove_refresh_token"
        user_id == Get(token_id_to_user_id, refresh_token_id).user_id
    IN  IF ~HasKey(token_id_to_user_id, refresh_token_id) \/ user_id = ""
        THEN /\ last_call' = Returned(op, refresh_token_id, None, <<>>)
             /\ UNCHANGED store_vars
        ELSE IF ~installed \/ user_id \notin Range(users)
                \/ ~HasKey(Get(user_objs, user_id).refresh_tokens, refresh_token_id)
        THEN /\ last_call' = Raised(op, refresh_token_id,
                                    IF ~installed THEN "TypeError" ELSE "KeyError")
             /\ UNCHANGED store_vars
        ELSE /\ user_objs' = DictSet(user_objs,
                    [Get(user_objs, user_id) EXCEPT
                        !.refresh_tokens = DictDel(@, refresh_token_id)])
             /\ token_id_to_user_id' = DictDel(token_id_to_user_id, refresh_token_id)
             /\ async_schedule_save(DEFAULT_SAVE_DELAY)
             /\ last_call' = Returned(op, refresh_token_id, None,
                                      << DEFAULT_SAVE_DELAY >>)
             /\ UNCHANGED << loaded, load_pc, perm_lookup, installed, users, groups,
                             cred_objs, stored, n_users, n_tokens, now >>

(***************************************************************************)
(* AuthStore.async_get_refresh_token_by_token                              *)
(* hmac.compare_digest on two str raises TypeError unless both are ASCII.  *)
(***************************************************************************)
NonAscii == {"<non-ascii secret>"}

compare_digest(a, b) ==
    IF a \in NonAscii \/ b \in NonAscii
    THEN [err |-> "TypeError", eq |-> FALSE]
    ELSE [err |-> None, eq |-> (a = b)]

RECURSIVE all_refresh_tokens(_, _)
all_refresh_tokens(us, i) ==
    IF i > Len(us) THEN <<>>
    ELSE us[i].refresh_tokens \o all_refresh_tokens(us, i + 1)

RECURSIVE scan_by_token(_, _, _, _)
scan_by_token(tokens, token, i, acc) ==
    IF i > Len(tokens) THEN acc
    ELSE LET c == compare_digest(tokens[i].token, token)
         IN  IF c.err # None
             THEN [acc EXCEPT !.err = c.err, !.compares = @ + 1]
             ELSE scan_by_token(tokens, token, i + 1,
                      [acc EXCEPT !.found = IF c.eq THEN tokens[i].id ELSE @,
                                  !.compares = @ + 1])

async_get_refresh_token_by_token(token) ==
    LET op == "async_get_refresh_token_by_token"
        r == scan_by_token(all_refresh_tokens(UserValues, 1), token, 1,
                           [err |-> None, found |-> None, compares |-> 0])
    IN  /\ last_call' = IF ~installed THEN Raised(op, token, "AttributeError")
                        ELSE IF r.err # None
                        THEN Call(op, token, r.err, None, <<>>, r.compares)
                        ELSE Call(op, token, None, r.found, <<>>, r.compares)
        /\ UNCHANGED store_vars

(***************************************************************************)
(* The read operations (lines 66-80, 244-249, 265-272).  self._users and   *)
(* self._groups are None until a load installs them.                       *)
(***************************************************************************)
async_get_groups ==
    /\ last_call' = IF ~installed THEN Raised("async_get_groups", None, "AttributeError")
                    ELSE Returned("async_get_groups", None, KeySeq(groups), <<>>)
    /\ UNCHANGED store_vars

async_get_group(group_id) ==
    /\ last_call' = IF ~installed THEN Raised("async_get_group", group_id, "AttributeError")
                    ELSE Returned("async_get_group", group_id,
                                  IF HasKey(groups, group_id) THEN group_id ELSE None, <<>>)
    /\ UNCHANGED store_vars

async_get_users ==
    /\ last_call' = IF ~installed THEN Raised("async_get_users", None, "AttributeError")
                    ELSE Returned("async_get_users", None, users, <<>>)
    /\ UNCHANGED store_vars

async_get_user(user_id) ==
    /\ last_call' = IF ~installed THEN Raised("async_get_user", user_id, "AttributeError")
                    ELSE Returned("async_get_user", user_id,
                                  IF user_id \in Range(users) THEN user_id ELSE None, <<>>)
    /\ UNCHANGED store_vars

async_get_refresh_token(token_id) ==
    LET op == "async_get_refresh_token"
        user_id == Get(token_id_to_user_id, token_id).user_id
    IN  /\ last_call' =
             IF ~HasKey(token_id_to_user_id, token_id) \/ user_id = ""
             THEN Returned(op, token_id, None, <<>>)
             ELSE IF ~installed THEN Raised(op, token_id, "TypeError")
             ELSE IF user_id \notin Range(users) THEN Raised(op, token_id, "KeyError")
             ELSE Returned(op, token_id,
                           IF HasKey(Get(user_objs, user_id).refresh_tokens, token_id)
                           THEN token_id ELSE None, <<>>)
        /\ UNCHANGED store_vars

async_get_refresh_tokens ==
    /\ last_call' = IF ~installed
                    THEN Raised("async_get_refresh_tokens", None, "AttributeError")
                    ELSE Returned("async_get_refresh_tokens", None,
                                  KeySeq(all_refresh_tokens(UserValues, 1)), <<>>)
    /\ UNCHANGED store_vars

(***************************************************************************)
(* AuthStore.async_activate_user / async_deactivate_user                   *)
(***************************************************************************)
set_is_active(op, user, is_active) ==
    /\ user_objs' = DictSet(user_objs, [Get(user_objs, user) EXCEPT !.is_active = is_active])
    /\ async_schedule_save(DEFAULT_SAVE_DELAY)
    /\ last_call' = Returned(op, user, None, << DEFAULT_SAVE_DELAY >>)
    /\ UNCHANGED << loaded, load_pc, perm_lookup, installed, users, groups,
                    token_id_to_user_id, cred_objs, stored, n_users, n_tokens, now >>

async_activate_user(user) == set_is_active("async_activate_user", user, TRUE)

async_deactivate_user(user) == set_is_active("async_deactivate_user", user, FALSE)

(***************************************************************************)
(* AuthStore.async_remove_credentials: `cred is credentials` compares      *)
(* object identity, here the heap reference.                               *)
(***************************************************************************)
\* mutant: the credential is compared by id (==), not by identity
RECURSIVE found_index_equal_id(_, _, _)
found_index_equal_id(creds, credentials, index) ==
    IF index > Len(creds) THEN 0
    ELSE IF cred_objs[creds[index]].id = cred_objs[credentials].id THEN index
    ELSE found_index_equal_id(creds, credentials, index + 1)

\* enumerate(user.credentials): the first index holding the object, 0 if none
RECURSIVE found_index(_, _, _)
found_index(creds, credentials, index) ==
    IF index > Len(creds) THEN 0
    ELSE IF creds[index] = credentials THEN index
    ELSE found_index(creds, credentials, index + 1)

\* the loop over self._users.values(): stops at the first user holding it
RECURSIVE remove_credentials_loop(_, _, _, _)
remove_credentials_loop(objs, us, credentials, i) ==
    IF i > Len(us) THEN objs
    ELSE LET user == Get(objs, us[i])
             found == found_index(user.credentials, credentials, 1)
         IN  IF found # 0
             THEN DictSet(objs, [user EXCEPT !.credentials = RemoveAt(@, found)])
             ELSE remove_credentials_loop(objs, us, credentials, i + 1)

async_remove_credentials(credentials) ==
    LET op == "async_remove_credentials"
    IN  IF ~installed
        THEN /\ last_call' = Raised(op, credentials, "AttributeError")
             /\ UNCHANGED store_vars
        ELSE /\ user_objs' = remove_credentials_loop(user_objs, users, credentials, 1)
             /\ async_schedule_save(DEFAULT_SAVE_DELAY)
             /\ last_call' = Returned(op, credentials, None, << DEFAULT_SAVE_DELAY >>)
             /\ UNCHANGED << loaded, load_pc, perm_lookup, installed, users, groups,
                             token_id_to_user_id, cred_objs, stored, n_users,
                             n_tokens, now >>

(***************************************************************************)
(* AuthStore.async_update_user_credentials_data                            *)
(***************************************************************************)
async_update_user_credentials_data(credentials, data) ==
    /\ cred_objs' = [cred_objs EXCEPT ![credentials].data = data]
    /\ async_schedule_save(DEFAULT_SAVE_DELAY)
    /\ last_call' = Returned("async_update_user_credentials_data", credentials, None,
                             << DEFAULT_SAVE_DELAY >>)
    /\ UNCHANGED << loaded, load_pc, perm_lookup, installed, users, user_objs, groups,
                    token_id_to_user_id, stored, n_users, n_tokens, now >>

(***************************************************************************)
(* AuthStore.async_log_refresh_token_usage and AuthStore.async_set_expiry. *)
(* The RefreshToken object is the one in the refresh_tokens map of the     *)
(* User object `user`; user = None stands for a token object that no User  *)
(* object holds any more, whose fields the store cannot see.               *)
(***************************************************************************)
\* seconds from the Unix epoch to 2024-01-01T00:00:00+00:00, IsoStrings[1]
EPOCH_OFFSET == 19723 * 86400

\* datetime.timestamp()
timestamp(t) == EPOCH_OFFSET + t

\* auth/const.py: timedelta(days=90).total_seconds()
REFRESH_TOKEN_EXPIRATION == total_seconds([days |-> 90, seconds |-> 0])

update_token(user, refresh_token_id, refresh_token) ==
    DictSet(user_objs, [Get(user_objs, user) EXCEPT
                           !.refresh_tokens = DictSet(@, refresh_token)])

log_refresh_token_usage(refresh_token, remote_ip) ==
    [refresh_token EXCEPT
        !.last_used_at = now,
        !.last_used_ip = remote_ip,
        !.expire_at = IF @ # NoneT /\ @ # 0
                      THEN timestamp(now) + REFRESH_TOKEN_EXPIRATION ELSE @]

async_log_refresh_token_usage(user, refresh_token_id, remote_ip) ==
    /\ IF user = None
       THEN UNCHANGED user_objs
       ELSE user_objs' = update_token(user, refresh_token_id,
                log_refresh_token_usage(
                    Get(Get(user_objs, user).refresh_tokens, refresh_token_id), remote_ip))
    /\ async_schedule_save(DEFAULT_SAVE_DELAY)
    /\ last_call' = Returned("async_log_refresh_token_usage",
                             [user |-> user, refresh_token_id |-> refresh_token_id,
                              remote_ip |-> remote_ip],
                             None, << DEFAULT_SAVE_DELAY >>)
    /\ UNCHANGED << loaded, load_pc, perm_lookup, installed, users, groups,
                    token_id_to_user_id, cred_objs, stored, n_users, n_tokens, now >>

\* mutant: enabling overwrites an expiry that is set
expire_at_is_none_always(refresh_token) == TRUE

\* refresh_token.expire_at is None
expire_at_is_none(refresh_token) == refresh_token.expire_at = NoneT

async_set_expiry(user, refresh_token_id, enable_expiry) ==
    LET op == "async_set_expiry"
        refresh_token == Get(Get(user_objs, user).refresh_tokens, refresh_token_id)
        arg == [user |-> user, refresh_token_id |-> refresh_token_id,
                enable_expiry |-> enable_expiry]
        saved == Returned(op, arg, None, << DEFAULT_SAVE_DELAY >>)
    IN  /\ IF enable_expiry
           THEN IF expire_at_is_none(refresh_token)
                THEN /\ user_objs' = update_token(user, refresh_token_id,
                            [refresh_token EXCEPT !.expire_at =
                                timestamp(IF refresh_token.last_used_at # NoneT
                                          THEN refresh_token.last_used_at ELSE now)
                                + REFRESH_TOKEN_EXPIRATION])
                     /\ async_schedule_save(DEFAULT_SAVE_DELAY)
                     /\ last_call' = saved
                ELSE /\ last_call' = Returned(op, arg, None, <<>>)
                     /\ UNCHANGED << user_objs, pending_save >>
           ELSE /\ user_objs' = update_token(user, refresh_token_id,
                       [refresh_token EXCEPT !.expire_at = NoneT])
                /\ async_schedule_save(DEFAULT_SAVE_DELAY)
                /\ last_call' = saved
        /\ UNCHANGED << loaded, load_pc, perm_lookup, installed, users, groups,
                        token_id_to_user_id, cred_objs, stored, n_users, n_tokens, now >>

(***************************************************************************)
(* The adapter's delayed write: it calls the data producer                 *)
(* (self._data_to_save) when the delay expires and replaces the document.  *)
(***************************************************************************)
Dict(data) == [kind |-> "dict", data |-> data]

EmptyData == [users |-> <<>>, groups |-> <<>>, credentials |-> <<>>,
              refresh_tokens |-> <<>>]

Absent == [kind |-> "absent", data |-> EmptyData]

Malformed == [kind |-> "malformed", data |-> EmptyData]

Unreadable == [kind |-> "unreadable", data |-> EmptyData]

flush_save ==
    /\ pending_save # NoSave
    /\ pending_save' = NoSave
    /\ IF installed
       THEN /\ stored' = Dict(data_to_save(UserValues, groups, cred_objs))
            /\ last_call' = Returned("flush_save", None, None, <<>>)
       ELSE /\ last_call' = Raised("flush_save", None, "AttributeError")
            /\ UNCHANGED stored
    /\ UNCHANGED << loaded, load_pc, perm_lookup, installed, users, user_objs,
                    groups, token_id_to_user_id, cred_objs, n_users, n_tokens, now,
                    n_calls >>

\* a second passes: the delay of a pending save runs down, and the adapter
\* writes when it has elapsed
tick ==
    /\ now < MaxNow
    /\ pending_save # 0
    /\ now' = now + 1
    /\ pending_save' = IF pending_save = NoSave THEN NoSave ELSE pending_save - 1
    /\ UNCHANGED << loaded, load_pc, perm_lookup, installed, users, user_objs,
                    groups, token_id_to_user_id, cred_objs, stored,
                    last_call, n_users, n_tokens, n_calls >>

(***************************************************************************)
(* Persisted documents                                                     *)
(***************************************************************************)
GROUP_ID_CUSTOM == "group-custom"

GroupDict(id, name) == [id |-> id, name |-> name, policy |-> None,
                        keys |-> {"id", "name"}]

GroupDictWithPolicy(id, name, policy) ==
    [id |-> id, name |-> name, policy |-> policy, keys |-> {"id", "name", "policy"}]

UserDict(id, system_generated, group_ids) ==
    [id |-> id, group_ids |-> group_ids, is_owner |-> FALSE, is_active |-> TRUE,
     name |-> "Paulus", system_generated |-> system_generated,
     local_only |-> FALSE, keys |-> UserKeys]

CredDict(id, user_id) ==
    [id |-> id, user_id |-> user_id, auth_provider_type |-> "homeassistant",
     auth_provider_id |-> None, data |-> "data-0",
     keys |-> {"id", "user_id", "auth_provider_type", "auth_provider_id", "data"}]

TokenDict(id, user_id, secret, credential_id) ==
    [id |-> id, user_id |-> user_id, client_id |-> "http://client",
     client_name |-> None, client_icon |-> None, token_type |-> TOKEN_TYPE_NORMAL,
     created_at |-> JStr(isoformat(0)), access_token_expiration |-> 1800,
     token |-> secret, jwt_key |-> "jwt-0", last_used_at |-> JNull,
     last_used_ip |-> None, expire_at |-> NoneT, credential_id |-> credential_id,
     version |-> HA_VERSION, keys |-> TokenKeys]

SystemGroupDicts ==
    << GroupDict(GROUP_ID_ADMIN, GROUP_NAME_ADMIN),
       GroupDict(GROUP_ID_USER, GROUP_NAME_USER),
       GroupDict(GROUP_ID_READ_ONLY, GROUP_NAME_READ_ONLY) >>

\* A document as the store itself writes it: a user with a credential and a
\* refresh token, a system-generated user with a refresh token, the system
\* groups and one custom group.
SeedData ==
    [users |-> << UserDict("u1", FALSE, << GROUP_ID_ADMIN >>),
                  UserDict("u2", TRUE, << GROUP_ID_READ_ONLY >>) >>,
     groups |-> SystemGroupDicts
                \o << GroupDictWithPolicy(GROUP_ID_CUSTOM, "Custom", "custom-policy") >>,
     credentials |-> << CredDict("c1", "u1") >>,
     refresh_tokens |-> << TokenDict("t1", "u1", "secret-0", "c1"),
                           TokenDict("t2", "u2", "secret-9", None) >>]

\* The same document with a credential record of a user that is not in it.
OrphanData ==
    [SeedData EXCEPT !.credentials = << CredDict("c1", "ghost") >>]

(***************************************************************************)
(* Spec: the store driven by its callers                                   *)
(***************************************************************************)
MaxNewCreds == 1

CredUuids == << "cred-1", "cred-2", "cred-3" >>

\* Credentials objects the auth providers have constructed and hold
ProviderCredentials ==
    [i \in 1..MaxNewCreds |->
        Credentials(CredUuids[i], "homeassistant", None, "data-1", TRUE)]

InitStore ==
    /\ loaded = FALSE
    /\ load_pc = "idle"
    /\ perm_lookup = FALSE
    /\ installed = FALSE
    /\ users = <<>>
    /\ user_objs = <<>>
    /\ groups = <<>>
    /\ token_id_to_user_id = <<>>
    /\ cred_objs = ProviderCredentials
    /\ pending_save = NoSave
    /\ last_call = Returned("__init__", None, None, <<>>)
    /\ n_users = 0
    /\ n_tokens = 0
    /\ now = 0
    /\ n_calls = 0

Init ==
    /\ InitStore
    /\ stored \in {Absent, Malformed, Dict(SeedData), Dict(OrphanData)}

TokenIdUniverse == {"t1", "t2"} \cup {TokenUuids[k] : k \in 1..MaxNewTokens}

SecretUniverse == {"secret-0", "secret-1", "unknown"} \cup NonAscii

CreateUser ==
    \E group_ids \in { <<>>, << GROUP_ID_ADMIN >>, << GROUP_ID_ADMIN, "group-unknown" >> } :
        /\ n_users < MaxNewUsers
        /\ async_create_user("Anne", <<>>, << TRUE >>, <<>>, NoneRef, group_ids, <<>>)
        /\ UNCHANGED n_calls

RemoveUser ==
    \E user \in Keys(user_objs) : async_remove_user(user) /\ UNCHANGED n_calls

CreateRefreshToken ==
    \E user \in Keys(user_objs) :
        /\ n_tokens < MaxNewTokens
        /\ async_create_refresh_token(user, "http://client", None, None,
               TOKEN_TYPE_NORMAL, ACCESS_TOKEN_EXPIRATION, NoneT, NoneRef)
        /\ UNCHANGED n_calls

RemoveRefreshToken ==
    \E refresh_token_id \in TokenIdUniverse :
        async_remove_refresh_token(refresh_token_id) /\ UNCHANGED n_calls

GetRefreshTokenByToken ==
    \E token \in SecretUniverse :
        async_get_refresh_token_by_token(token) /\ UNCHANGED n_calls

Next ==
    \/ async_load
    \/ async_load_resume
    \/ CreateUser
    \/ RemoveUser
    \/ CreateRefreshToken
    \/ RemoveRefreshToken
    \/ GetRefreshTokenByToken

Spec == Init /\ [][Next]_vars

(***************************************************************************)
(* SpecLoadGroups: async_load over persisted documents that vary the group *)
(* records and the user records (old and new schema)                       *)
(***************************************************************************)
MaxDocUsers == 2

DocUserIds == << "u1", "u2", "u3", "u4" >>

GROUP_ID_LEGACY == "group-legacy"

RenamedAdmin == GroupDictWithPolicy(GROUP_ID_ADMIN, "Renamed", "stored-policy")

RenamedUser == GroupDictWithPolicy(GROUP_ID_USER, "Renamed", "stored-policy")

RenamedReadOnly == GroupDict(GROUP_ID_READ_ONLY, "Renamed")

CustomGroup == GroupDictWithPolicy(GROUP_ID_CUSTOM, "Custom", "custom-policy")

PolicylessGroup == GroupDict(GROUP_ID_LEGACY, "Legacy")

GroupRecordLists ==
    { <<>>,
      SystemGroupDicts,
      << RenamedAdmin >>,
      << RenamedUser, RenamedReadOnly >>,
      << RenamedReadOnly, RenamedAdmin, RenamedUser >>,
      << CustomGroup >>,
      SystemGroupDicts \o << CustomGroup >>,
      << PolicylessGroup >>,
      SystemGroupDicts \o << PolicylessGroup >>,
      << PolicylessGroup, CustomGroup >>,
      << CustomGroup, RenamedAdmin >> }

\* has_group_ids = FALSE: a record of the schema that had no group_ids key
UserShapes ==
    [system_generated : BOOLEAN, has_group_ids : {TRUE},
     group_ids : { <<>>, << GROUP_ID_ADMIN >>, << GROUP_ID_USER >>,
                   << GROUP_ID_READ_ONLY, GROUP_ID_CUSTOM >>, << GROUP_ID_LEGACY >> }]
    \cup [system_generated : BOOLEAN, has_group_ids : {FALSE}, group_ids : { <<>> }]

ShapedUserDict(id, shape) ==
    [UserDict(id, shape.system_generated, shape.group_ids) EXCEPT
        !.keys = IF shape.has_group_ids THEN @ ELSE @ \ {"group_ids", "local_only"}]

UserRecordLists ==
    UNION { { [i \in 1..n |-> ShapedUserDict(DocUserIds[i], f[i])] :
                f \in [1..n -> UserShapes] } : n \in 0..MaxDocUsers }

InitLoadGroups ==
    /\ InitStore
    /\ stored \in { Dict([users |-> u, groups |-> g, credentials |-> <<>>,
                          refresh_tokens |-> <<>>]) :
                      u \in UserRecordLists, g \in GroupRecordLists }

NextLoad ==
    \/ async_load
    \/ async_load_resume

SpecLoadGroups == InitLoadGroups /\ [][NextLoad]_vars

(***************************************************************************)
(* SpecLoadTokens: async_load over persisted documents that vary the       *)
(* refresh token records                                                   *)
(***************************************************************************)
MaxDocTokens == 2

DocTokenIds == << "t1", "t2", "t3", "t4" >>

DocSecrets == << "secret-a", "secret-b", "secret-c", "secret-d" >>

TokenShapes == { "ok", "legacy", "no jwt_key", "no created_at", "created_at int",
                 "not-a-date" }

\* records that differ in token_type and client_id only
TokenTypeShapes == { "ok", "legacy", "no token_type", "long-lived" }

ShapedTokenDict(i, user_id, shape) ==
    LET base == TokenDict(DocTokenIds[i], user_id, DocSecrets[i], "c1")
    IN  CASE shape = "ok" -> base
          [] shape = "legacy" ->
                [base EXCEPT !.client_id = None,
                             !.keys = @ \ {"token_type", "client_name", "client_icon",
                                           "last_used_at", "last_used_ip", "expire_at",
                                           "credential_id", "version"}]
          [] shape = "no jwt_key" -> [base EXCEPT !.keys = @ \ {"jwt_key"}]
          [] shape = "no created_at" -> [base EXCEPT !.keys = @ \ {"created_at"}]
          [] shape = "created_at int" -> [base EXCEPT !.created_at = JInt]
          [] shape = "not-a-date" -> [base EXCEPT !.created_at = JStr("not-a-date")]
          [] shape = "no token_type" -> [base EXCEPT !.keys = @ \ {"token_type"}]
          [] shape = "long-lived" ->
                [base EXCEPT !.client_id = None,
                             !.token_type = TOKEN_TYPE_LONG_LIVED_ACCESS_TOKEN]

TokenRecordLists ==
    UNION { { [i \in 1..n |-> ShapedTokenDict(i, f[i].user_id, f[i].shape)] :
                f \in [1..n -> [user_id : {"u1", "u2", "ghost"}, shape : TokenShapes]] } :
            n \in 0..MaxDocTokens }

InitLoadTokens ==
    /\ InitStore
    /\ stored \in { Dict([SeedData EXCEPT !.refresh_tokens = t]) :
                      t \in TokenRecordLists }

SpecLoadTokens == InitLoadTokens /\ [][NextLoad]_vars

TokenTypeRecordLists ==
    UNION { { [i \in 1..n |-> ShapedTokenDict(i, f[i].user_id, f[i].shape)] :
                f \in [1..n -> [user_id : {"u1", "u2"}, shape : TokenTypeShapes]] } :
            n \in 0..MaxDocTokens }

InitLoadTokenTypes ==
    /\ InitStore
    /\ stored \in { Dict([SeedData EXCEPT !.refresh_tokens = t]) :
                      t \in TokenTypeRecordLists }

SpecLoadTokenTypes == InitLoadTokenTypes /\ [][NextLoad]_vars

(***************************************************************************)
(* SpecRoundTrip: the store populated by create-user, link-credential,     *)
(* create-refresh-token and update operations on users it holds            *)
(***************************************************************************)
InitRoundTrip ==
    /\ InitStore
    /\ stored \in {Absent, Dict(SeedData)}

CreateUserInGroups ==
    \E group_ids \in { <<>>, << GROUP_ID_ADMIN >>, << GROUP_ID_USER >>,
                       << GROUP_ID_READ_ONLY, GROUP_ID_CUSTOM >> },
       credentials \in {NoneRef} \cup {i \in 1..Len(cred_objs) : cred_objs[i].is_new} :
        /\ n_users < MaxNewUsers
        /\ async_create_user("Anne", <<>>, << TRUE >>, <<>>, credentials, group_ids, <<>>)
        /\ UNCHANGED n_calls

\* AuthManager links a credential that is new (auth/__init__.py checks is_new)
LinkUser ==
    \E user \in Range(users), credentials \in 1..Len(cred_objs) :
        /\ cred_objs[credentials].is_new
        /\ async_link_user(user, credentials)
        /\ UNCHANGED n_calls

UpdateUser ==
    \E user \in Range(users) :
        /\ async_update_user(user, "Renamed", << FALSE >>, << << GROUP_ID_READ_ONLY >> >>,
                             << TRUE >>)
        /\ UNCHANGED n_calls

\* the token is created for a user of the store, with no credential or with
\* one of the user's own
CreateRefreshTokenOfUser ==
    \E user \in Range(users) :
        \E credential \in {NoneRef} \cup Range(Get(user_objs, user).credentials),
           shape \in { << TOKEN_TYPE_NORMAL, "http://client", None, NoneT >>,
                       << TOKEN_TYPE_LONG_LIVED_ACCESS_TOKEN, None, "", now + 1 >> } :
            /\ n_tokens < MaxNewTokens
            /\ async_create_refresh_token(user, shape[2], shape[3], None, shape[1],
                   ACCESS_TOKEN_EXPIRATION, shape[4], credential)
            /\ UNCHANGED n_calls

NextRoundTrip ==
    \/ async_load
    \/ async_load_resume
    \/ CreateUserInGroups
    \/ LinkUser
    \/ UpdateUser
    \/ CreateRefreshTokenOfUser
    \/ tick

SpecRoundTrip == InitRoundTrip /\ [][NextRoundTrip]_vars

(***************************************************************************)
(* SpecOps: every operation of the store, called in any order, before and  *)
(* after the load                                                          *)
(***************************************************************************)
\* A document with a renamed admin group record, no record for the other
\* system groups, a custom group, and one user with a credential and a token.
OpsData ==
    [users |-> << UserDict("u1", FALSE, << GROUP_ID_CUSTOM >>) >>,
     groups |-> << RenamedAdmin, CustomGroup >>,
     credentials |-> << CredDict("c1", "u1") >>,
     refresh_tokens |-> << TokenDict("t1", "u1", "secret-0", "c1") >>]

InitOps ==
    /\ InitStore
    /\ stored \in {Absent, Dict(OpsData)}

\* the RefreshToken objects held by the User objects: << user id, token id >>
HeldTokens ==
    UNION { { << user_objs[i].id, user_objs[i].refresh_tokens[k].id >> :
                k \in 1..Len(user_objs[i].refresh_tokens) } : i \in 1..Len(user_objs) }

\* the callers make at most MaxCalls state-changing calls
MaxCalls == 3

Counted == n_calls < MaxCalls /\ n_calls' = n_calls + 1

GetGroups == async_get_groups /\ UNCHANGED n_calls

GetGroup ==
    \E group_id \in {GROUP_ID_ADMIN, "group-unknown"} :
        async_get_group(group_id) /\ UNCHANGED n_calls

GetUsers == async_get_users /\ UNCHANGED n_calls

GetUser ==
    \E user_id \in {"u1", "user-unknown"} : async_get_user(user_id) /\ UNCHANGED n_calls

GetRefreshToken ==
    \E token_id \in TokenIdUniverse :
        async_get_refresh_token(token_id) /\ UNCHANGED n_calls

GetRefreshTokens == async_get_refresh_tokens /\ UNCHANGED n_calls

GetRefreshTokenByAsciiToken ==
    \E token \in {"secret-0", "unknown"} :
        async_get_refresh_token_by_token(token) /\ UNCHANGED n_calls

CreateUserOps ==
    \E group_ids \in { <<>>, << GROUP_ID_READ_ONLY >>, << "group-unknown" >>,
                       << GROUP_ID_ADMIN, "group-unknown" >> } :
        /\ n_users < MaxNewUsers
        /\ async_create_user("Anne", <<>>, << TRUE >>, <<>>, NoneRef, group_ids, <<>>)
        /\ Counted

RemoveUserOps == \E user \in Keys(user_objs) : async_remove_user(user) /\ Counted

UpdateUserOps ==
    \E user \in Keys(user_objs) :
        /\ \/ async_update_user(user, "Renamed", <<>>, << << GROUP_ID_READ_ONLY >> >>, <<>>)
           \/ async_update_user(user, "Renamed", << FALSE >>,
                                << << GROUP_ID_ADMIN, "group-unknown" >> >>, << TRUE >>)
        /\ Counted

ActivateUser == \E user \in Keys(user_objs) : async_activate_user(user) /\ Counted

DeactivateUser == \E user \in Keys(user_objs) : async_deactivate_user(user) /\ Counted

LinkUserOps ==
    \E user \in Keys(user_objs), credentials \in 1..Len(cred_objs) :
        /\ cred_objs[credentials].is_new
        /\ async_link_user(user, credentials)
        /\ Counted

RemoveCredentials ==
    \E credentials \in 1..Len(cred_objs) :
        async_remove_credentials(credentials) /\ Counted

UpdateUserCredentialsData ==
    \E credentials \in 1..Len(cred_objs) :
        async_update_user_credentials_data(credentials, "data-2") /\ Counted

CreateRefreshTokenOps ==
    \E user \in Keys(user_objs) :
        /\ n_tokens < MaxNewTokens
        /\ async_create_refresh_token(user, "http://client", None, None,
               TOKEN_TYPE_NORMAL, ACCESS_TOKEN_EXPIRATION, NoneT, NoneRef)
        /\ Counted

RemoveRefreshTokenOps ==
    \E refresh_token_id \in TokenIdUniverse :
        async_remove_refresh_token(refresh_token_id) /\ Counted

LogRefreshTokenUsage ==
    /\ \/ \E held \in HeldTokens :
              async_log_refresh_token_usage(held[1], held[2], "10.0.0.1")
       \/ async_log_refresh_token_usage(None, "token-detached", None)
    /\ Counted

SetExpiry ==
    \E held \in HeldTokens, enable_expiry \in BOOLEAN :
        async_set_expiry(held[1], held[2], enable_expiry) /\ Counted

NextOps ==
    \/ async_load
    \/ async_load_resume
    \/ GetGroups
    \/ GetGroup
    \/ GetUsers
    \/ GetUser
    \/ GetRefreshToken
    \/ GetRefreshTokens
    \/ GetRefreshTokenByAsciiToken
    \/ CreateUserOps
    \/ LinkUserOps
    \/ RemoveUserOps
    \/ UpdateUserOps
    \/ ActivateUser
    \/ DeactivateUser
    \/ RemoveCredentials
    \/ UpdateUserCredentialsData
    \/ CreateRefreshTokenOps
    \/ RemoveRefreshTokenOps
    \/ LogRefreshTokenUsage
    \/ SetExpiry

SpecOps == InitOps /\ [][NextOps]_vars

(***************************************************************************)
(* SpecSave: the state-changing operations together with the adapter's     *)
(* delayed write and the passing of time                                   *)
(***************************************************************************)
NextSave ==
    \/ async_load
    \/ async_load_resume
    \/ CreateUserOps
    \/ RemoveUserOps
    \/ CreateRefreshTokenOps
    \/ RemoveRefreshTokenOps
    \/ flush_save
    \/ tick

SpecSave == InitOps /\ [][NextSave]_vars

\* the adapter's timer fires: a pending save is eventually written
SpecSaveFair == SpecSave /\ WF_vars(flush_save)

(***************************************************************************)
(* SpecLoadCredentials: async_load over persisted documents that vary the  *)
(* credential records                                                      *)
(***************************************************************************)
MaxDocCreds == 2

CredRecordLists ==
    UNION { [1..n -> { CredDict(id, user_id) :
                         id \in {"c1", "c2"}, user_id \in {"u1", "u2", "ghost"} }] :
            n \in 0..MaxDocCreds }

InitLoadCredentials ==
    /\ InitStore
    /\ stored \in { Dict([SeedData EXCEPT !.credentials = c, !.refresh_tokens = t]) :
                      c \in CredRecordLists, t \in { <<>>, SeedData.refresh_tokens } }

SpecLoadCredentials == InitLoadCredentials /\ [][NextLoad]_vars

(***************************************************************************)
(* Properties                                                              *)
(***************************************************************************)
\* <<token id, user id>> for every refresh token held by a user in the store
StoreTokenPairs ==
    UNION { { << t.id, UserValues[i].id >> : t \in Range(UserValues[i].refresh_tokens) } :
            i \in 1..Len(users) }

IndexPairs == { << e.id, e.user_id >> : e \in Range(token_id_to_user_id) }

\* C1: after a successful load and after every step of any sequence of
\* create-user, remove-user, create-refresh-token and remove-refresh-token
\* calls, the keys of token_id_to_user_id are exactly the ids of the refresh
\* tokens held by the users in the store, each mapped to its owner's id.
C1_IndexEqualsUserTokens ==
    load_pc = "done" => IndexPairs = StoreTokenPairs

\* C2: removing a user that is in the store succeeds, removes the user from
\* users, removes each of its refresh token ids from token_id_to_user_id,
\* empties its refresh_tokens map, and leaves every other user object and every
\* other index entry as it was.
C2_RemoveUserCascades ==
    [][ (last_call'.op = "async_remove_user" /\ installed
            /\ last_call'.arg \in Range(users))
        => LET user == last_call'.arg
           IN  /\ last_call'.err = None
               /\ users' = SelectSeq(users, LAMBDA k : k # user)
               /\ user \notin Range(users')
               /\ \A t \in Keys(Get(user_objs, user).refresh_tokens) :
                      ~HasKey(token_id_to_user_id', t)
               /\ Get(user_objs', user).refresh_tokens = <<>>
               /\ \A other \in Keys(user_objs) \ {user} :
                      Get(user_objs', other) = Get(user_objs, other)
               /\ token_id_to_user_id' =
                      SelectSeq(token_id_to_user_id, LAMBDA e : e.user_id # user)
      ]_vars

\* C2 witness: a user that held a refresh token has been removed while another
\* user's token is still indexed.
C2_Witness ==
    /\ last_call.op = "async_remove_user"
    /\ last_call.arg = "u1"
    /\ last_call.err = None
    /\ n_tokens = 0
    /\ IndexPairs = { << "t2", "u2" >> }

\* C3: remove-refresh-token for a token whose id is in the index deletes it
\* from its owner's refresh_tokens map and from token_id_to_user_id and
\* requests a save; for a token whose id is not in the index it changes
\* nothing, requests no save and raises no error.
C3_RemoveRefreshToken ==
    [][ last_call'.op = "async_remove_refresh_token"
        => LET t == last_call'.arg
           IN  /\ last_call'.err = None
               /\ IF HasKey(token_id_to_user_id, t)
                  THEN LET owner == Get(token_id_to_user_id, t).user_id
                       IN  /\ ~HasKey(token_id_to_user_id', t)
                           /\ ~HasKey(Get(user_objs', owner).refresh_tokens, t)
                           /\ last_call'.saves = << DEFAULT_SAVE_DELAY >>
                  ELSE /\ UNCHANGED store_vars
                       /\ last_call'.saves = <<>>
      ]_vars

\* C9: on a loaded store find-token-by-secret returns a refresh token of a
\* user in the store whose secret equals the given string when there is one and
\* nothing otherwise, compares the string with every refresh token of every
\* user, changes no state and requests no save.
C9_FindTokenBySecret ==
    [][ (last_call'.op = "async_get_refresh_token_by_token" /\ installed)
        => LET tokens == all_refresh_tokens(UserValues, 1)
               matching == { tokens[i].id : i \in { j \in 1..Len(tokens) :
                                 tokens[j].token = last_call'.arg } }
           IN  /\ last_call'.err = None
               /\ IF matching # {} THEN last_call'.value \in matching
                                   ELSE last_call'.value = None
               /\ last_call'.compares = Len(tokens)
               /\ last_call'.saves = <<>>
               /\ UNCHANGED store_vars
      ]_vars

\* C10: a call of load on a store whose load has already started raises an
\* error and leaves users, groups, the token index and the pending save
\* request as they were.
C10_SecondLoadFails ==
    [][ (last_call'.op = "async_load" /\ loaded)
        => /\ last_call'.err = "RuntimeError"
           /\ UNCHANGED << installed, users, user_objs, groups,
                           token_id_to_user_id, pending_save, load_pc >>
      ]_vars

\* C10 witness: the second call came while the first was suspended in the
\* adapter's read.
C10_Witness ==
    /\ last_call.op = "async_load"
    /\ last_call.err = "RuntimeError"
    /\ load_pc = "reading"

\* The persisted refresh token records the loader keeps: they carry a jwt_key
\* and a created_at that is a str and parses as a date.
Kept(rt_dict) ==
    /\ "jwt_key" \in rt_dict.keys
    /\ "created_at" \in rt_dict.keys
    /\ rt_dict.created_at.type = "str"
    /\ \E i \in 1..Len(IsoStrings) : IsoStrings[i] = rt_dict.created_at.s

LoadedDocument == load_pc = "done" /\ stored.kind = "dict"

\* C5 as stated: loading a document with zero non-system groups (system group
\* records or not) and no policy-less non-system group makes every user that
\* is not system-generated a member of the admin group.
C5_MigrationWithoutCustomGroups ==
    (LoadedDocument
        /\ \A gd \in Range(stored.data.groups) : gd.id \in SystemGroupIds)
    => \A ud \in Range(stored.data.users) :
           ~ud.system_generated
           => GROUP_ID_ADMIN \in Range(Get(user_objs, ud.id).groups)

\* C5 amended: loading a document that contains no group records at all makes
\* every user that is not system-generated a member of the admin group.
C5_MigrationWithoutGroupRecords ==
    (LoadedDocument /\ stored.data.groups = <<>>)
    => \A ud \in Range(stored.data.users) :
           ~ud.system_generated
           => GROUP_ID_ADMIN \in Range(Get(user_objs, ud.id).groups)

\* C5 witness: a document without group records was loaded; a user persisted
\* without groups is now in the admin group, a system-generated one is not.
C5_Witness ==
    /\ LoadedDocument
    /\ stored.data.groups = <<>>
    /\ Len(stored.data.users) = 2
    /\ ~stored.data.users[1].system_generated
    /\ stored.data.users[1].group_ids = <<>>
    /\ Get(user_objs, "u1").groups = << GROUP_ID_ADMIN >>
    /\ stored.data.users[2].system_generated
    /\ Get(user_objs, "u2").groups = <<>>

\* The state of a fresh store that loads what _data_to_save returns now
Reloaded == load_data(data_to_save(UserValues, groups, cred_objs), <<>>)

\* C6: when a document that triggers the admin-group migration has been
\* loaded, loading the output of _data_to_save into a fresh store succeeds
\* without migrating again and gives every user the group list it has now.
C6_MigrationAppliedOnce ==
    (LoadedDocument /\ migrate_users_to_admin_group(initialize_groups(stored.data)))
    => /\ Reloaded.err = None
       /\ ~Reloaded.migrate
       /\ KeySeq(Reloaded.users) = users
       /\ \A i \in 1..Len(users) : Reloaded.users[i].groups = UserValues[i].groups

\* C6 witness: the migration has appended the admin group to a user.
C6_Witness ==
    /\ LoadedDocument
    /\ migrate_users_to_admin_group(initialize_groups(stored.data))
    /\ Len(users) = 2
    /\ stored.data.users[1].group_ids = << GROUP_ID_ADMIN >>
    /\ Get(user_objs, "u1").groups = << GROUP_ID_ADMIN, GROUP_ID_ADMIN >>

\* C7: a persisted group record whose id is the admin, user or read-only
\* constant loads as the group with the hardcoded name and policy and
\* system_generated = TRUE, whatever the record carried.
C7_SystemGroupsHardcoded ==
    LoadedDocument
    => \A gd \in Range(stored.data.groups) :
           gd.id \in SystemGroupIds
           => /\ HasKey(groups, gd.id)
              /\ Get(groups, gd.id) \in { system_admin_group, system_user_group,
                                          system_read_only_group }

\* C7 witness: records for all three system groups with other names and
\* policies were loaded.
C7_Witness ==
    /\ LoadedDocument
    /\ stored.data.groups = << RenamedReadOnly, RenamedAdmin, RenamedUser >>
    /\ groups = << system_read_only_group, system_admin_group, system_user_group >>

\* C8: a refresh token record without jwt_key, or whose created_at is
\* missing, not a str or not a date, is dropped and never aborts the load;
\* every other record is in its user's refresh_tokens and in the index.
C8_BadTokenRecordsDropped ==
    /\ (stored.kind = "dict" /\ load_pc = "failed")
       => \E rt \in Range(stored.data.refresh_tokens) :
              Kept(rt) /\ rt.user_id \notin Keys(stored.data.users)
    /\ LoadedDocument
       => \A rt \in Range(stored.data.refresh_tokens) :
              IF Kept(rt)
              THEN /\ HasKey(Get(user_objs, rt.user_id).refresh_tokens, rt.id)
                   /\ << rt.id, rt.user_id >> \in IndexPairs
              ELSE /\ \A u \in Range(users) :
                          ~HasKey(Get(user_objs, u).refresh_tokens, rt.id)
                   /\ ~HasKey(token_id_to_user_id, rt.id)

\* C8 witness: a record without jwt_key (of a user that does not even exist)
\* and a record with an unparsable created_at were dropped, their sibling
\* loaded.
C8_Witness ==
    /\ LoadedDocument
    /\ Len(stored.data.refresh_tokens) = 2
    /\ ~Kept(stored.data.refresh_tokens[1])
    /\ stored.data.refresh_tokens[1].user_id = "ghost"
    /\ Kept(stored.data.refresh_tokens[2])
    /\ IndexPairs = { << "t2", "u1" >> }

\* A user with its Credentials objects and its tokens' Credentials objects
\* in place of the references to them
UserView(u, heap) ==
    [u EXCEPT !.credentials = [i \in 1..Len(@) |-> heap[@[i]]],
              !.refresh_tokens =
                  [i \in 1..Len(@) |->
                      [@[i] EXCEPT !.credential =
                          IF @ = NoneRef THEN <<>> ELSE << heap[@] >>]]]

\* C4: for every store state reached by create-user, link-credential,
\* create-refresh-token and update operations, loading the output of
\* _data_to_save into a fresh store yields the same users in the same order
\* with the same fields, group-id lists, credentials and refresh tokens.
C4_RoundTrip ==
    load_pc = "done"
    => /\ Reloaded.err = None
       /\ KeySeq(Reloaded.users) = users
       /\ \A i \in 1..Len(users) :
              UserView(Reloaded.users[i], Reloaded.heap)
                  = UserView(UserValues[i], cred_objs)

\* C11: an operation (get-users, get-user, get-groups, get-group or
\* create-user) called on a store that has not been loaded triggers the
\* load and completes without error against the loaded state.
C11_FirstOperationLoads ==
    [][ (~loaded /\ last_call'.op \in {"async_get_users", "async_get_user",
                                        "async_get_groups", "async_get_group",
                                        "async_create_user"})
        => /\ loaded'
           /\ installed'
           /\ last_call'.err = None
      ]_vars

\* C12: when the adapter returns no data or data that is not a mapping, load
\* leaves exactly the three system groups, no users and an empty token
\* index, and requests no save.
C12_DefaultsWithoutDocument ==
    [][ (last_call'.op = "async_load:resume" /\ stored.kind # "dict")
        => /\ last_call'.err = None
           /\ installed'
           /\ Len(groups') = 3
           /\ Range(groups') = { system_admin_group, system_user_group,
                                 system_read_only_group }
           /\ users' = <<>>
           /\ token_id_to_user_id' = <<>>
           /\ last_call'.saves = <<>>
           /\ pending_save' = pending_save
      ]_vars

\* C12 witness: a load that got malformed data has completed.
C12_Witness ==
    /\ load_pc = "done"
    /\ stored.kind = "malformed"
    /\ KeySeq(groups) = << GROUP_ID_ADMIN, GROUP_ID_USER, GROUP_ID_READ_ONLY >>
    /\ users = <<>>
    /\ pending_save = NoSave

\* a persisted group record that is not a system group and carries no policy
PolicyLess(gd) ==
    gd.id \notin SystemGroupIds /\ ("policy" \notin gd.keys \/ gd.policy = None)

\* the group ids a persisted user record lists (none in the oldest schema)
PersistedGroupIds(ud) == IF "group_ids" \in ud.keys THEN ud.group_ids ELSE <<>>

\* C13: a persisted non-system group record without a policy is absent from
\* the loaded group set, suppresses the admin-group migration (no user gets a
\* group appended), and every other group record of the document is loaded.
C13_QuarantinedGroup ==
    (stored.kind = "dict" /\ \E gd \in Range(stored.data.groups) : PolicyLess(gd))
    => /\ \A gd \in Range(stored.data.groups) :
              HasKey(initialize_groups(stored.data).groups, gd.id) <=> ~PolicyLess(gd)
       /\ load_pc = "done"
          => /\ \A gd \in Range(stored.data.groups) :
                    HasKey(groups, gd.id) <=> ~PolicyLess(gd)
             /\ \A ud \in Range(stored.data.users) :
                    Len(Get(user_objs, ud.id).groups) = Len(PersistedGroupIds(ud))

\* C13 witness: the only group record of the loaded document was
\* quarantined, and the user persisted without groups has none.
C13_Witness ==
    /\ LoadedDocument
    /\ stored.data.groups = << PolicylessGroup >>
    /\ KeySeq(groups) = << GROUP_ID_ADMIN, GROUP_ID_READ_ONLY, GROUP_ID_USER >>
    /\ Len(stored.data.users) = 1
    /\ ~stored.data.users[1].system_generated
    /\ Get(user_objs, "u1").groups = <<>>

\* C14: once a load has installed the groups, the group set contains the
\* admin, user and read-only groups with system_generated = TRUE and their
\* hardcoded names and policies, and no operation changes the group set.
C14_SystemGroupsFixed ==
    /\ [](installed
          => /\ HasKey(groups, GROUP_ID_ADMIN)
             /\ HasKey(groups, GROUP_ID_USER)
             /\ HasKey(groups, GROUP_ID_READ_ONLY)
             /\ Get(groups, GROUP_ID_ADMIN) =
                    Group(GROUP_ID_ADMIN, GROUP_NAME_ADMIN, ADMIN_POLICY, TRUE)
             /\ Get(groups, GROUP_ID_USER) =
                    Group(GROUP_ID_USER, GROUP_NAME_USER, USER_POLICY, TRUE)
             /\ Get(groups, GROUP_ID_READ_ONLY) =
                    Group(GROUP_ID_READ_ONLY, GROUP_NAME_READ_ONLY, READ_ONLY_POLICY, TRUE))
    /\ [][installed => groups' = groups]_vars

\* C14 witness: a document with a renamed admin group record and no record
\* of the other system groups was loaded, and users were created and updated.
C14_Witness ==
    /\ LoadedDocument
    /\ stored.data.groups = << RenamedAdmin, CustomGroup >>
    /\ n_calls >= 2
    /\ last_call.op = "async_update_user"
    /\ last_call.err = None
    /\ "user-1" \in Range(users)

\* a persisted group-id list with the user-group id replaced by the admin id
Rewritten(group_ids) ==
    [i \in 1..Len(group_ids) |->
        IF group_ids[i] = GROUP_ID_USER THEN GROUP_ID_ADMIN ELSE group_ids[i]]

\* C15: load appends the admin group to a user at most once, at the end, and
\* never to a system-generated user, and to no user when the document holds
\* a non-system group with a policy or a quarantined group.
C15_AppendOnlyOnMigration ==
    LoadedDocument
    => \A ud \in Range(stored.data.users) :
           LET loaded_groups == Get(user_objs, ud.id).groups
               resolved == Rewritten(PersistedGroupIds(ud))
           IN  /\ loaded_groups \in {resolved, Append(resolved, GROUP_ID_ADMIN)}
               /\ (ud.system_generated
                   \/ \E gd \in Range(stored.data.groups) : gd.id \notin SystemGroupIds)
                  => loaded_groups = resolved

\* C15 witness: the migration applied; the ordinary user got the admin group
\* appended, the system-generated user kept the list it was persisted with.
C15_Witness ==
    /\ LoadedDocument
    /\ stored.data.groups = <<>>
    /\ Len(stored.data.users) = 2
    /\ ~stored.data.users[1].system_generated
    /\ Get(user_objs, "u1").groups = << GROUP_ID_ADMIN >>
    /\ stored.data.users[2].system_generated
    /\ stored.data.users[2].group_ids = << GROUP_ID_ADMIN >>
    /\ Get(user_objs, "u2").groups = << GROUP_ID_ADMIN >>

\* C16: load resolves every persisted user's group-id list with each
\* occurrence of the user-group id replaced by the admin-group id, whether
\* or not the migration applies, so right after a load no user is a member
\* of the user group.
C16_UserGroupRewritten ==
    LoadedDocument
    => \A ud \in Range(stored.data.users) :
           LET loaded_groups == Get(user_objs, ud.id).groups
               persisted == PersistedGroupIds(ud)
           IN  /\ Len(loaded_groups) >= Len(persisted)
               /\ \A i \in 1..Len(persisted) :
                      loaded_groups[i] = IF persisted[i] = GROUP_ID_USER
                                         THEN GROUP_ID_ADMIN ELSE persisted[i]
               /\ GROUP_ID_USER \notin Range(loaded_groups)

\* C16 witness: a document that has the system group records (no migration)
\* was loaded; its two users, one of them system-generated, were persisted
\* in the user group and are in the admin group.
C16_Witness ==
    /\ LoadedDocument
    /\ stored.data.groups = SystemGroupDicts
    /\ Len(stored.data.users) = 2
    /\ \A i \in 1..2 : stored.data.users[i].group_ids = << GROUP_ID_USER >>
    /\ stored.data.users[2].system_generated
    /\ \A u \in Range(users) : Get(user_objs, u).groups = << GROUP_ID_ADMIN >>

\* C17: when a persisted credential record names a user id that is not among
\* the persisted users, load raises to its caller, installs no users and no
\* groups, and requests no save.
C17_OrphanCredentialFailsLoad ==
    [][ (last_call'.op = "async_load:resume" /\ stored.kind = "dict"
         /\ \E cd \in Range(stored.data.credentials) :
                cd.user_id \notin Keys(stored.data.users))
        => /\ last_call'.err = "KeyError"
           /\ load_pc' = "failed"
           /\ ~installed'
           /\ users' = <<>>
           /\ groups' = <<>>
           /\ token_id_to_user_id' = <<>>
           /\ last_call'.saves = <<>>
           /\ pending_save' = NoSave
      ]_vars

\* C17 witness: the load of a document whose second credential record names
\* an unknown user (the first names a known one) has failed.
C17_Witness ==
    /\ load_pc = "failed"
    /\ last_call.op = "async_load:resume"
    /\ last_call.err = "KeyError"
    /\ Len(stored.data.credentials) = 2
    /\ stored.data.credentials[1].user_id = "u1"
    /\ stored.data.credentials[2].user_id = "ghost"
    /\ ~installed

\* C18: create-user and update-user called with a group id that is not in
\* the group set raise an error, leave users, the target user's fields and
\* every other part of the store as they were, and request no save.
C18_UnknownGroupRejected ==
    [][ LET call == last_call'
            group_ids == IF call.op = "async_create_user" THEN call.arg
                         ELSE Opt(call.arg.group_ids, <<>>)
        IN  (call.op \in {"async_create_user", "async_update_user"}
             /\ \E i \in 1..Len(group_ids) : ~HasKey(groups, group_ids[i]))
            => /\ call.err # None
               /\ installed => call.err = "ValueError"
               /\ call.saves = <<>>
               /\ UNCHANGED store_vars
      ]_vars

\* C18 witness: update-user was called on the loaded store for u1 with a
\* valid group id followed by an unknown one, a name, is_active and
\* local_only; it raised and u1 is as it was loaded.
C18_Witness ==
    /\ LoadedDocument
    /\ last_call.op = "async_update_user"
    /\ last_call.err = "ValueError"
    /\ last_call.arg.user = "u1"
    /\ last_call.arg.group_ids = << << GROUP_ID_ADMIN, "group-unknown" >> >>
    /\ Get(user_objs, "u1").groups = << GROUP_ID_CUSTOM >>
    /\ Get(user_objs, "u1").name = stored.data.users[1].name
    /\ Get(user_objs, "u1").is_active
    /\ ~Get(user_objs, "u1").local_only
    /\ pending_save = INITIAL_LOAD_SAVE_DELAY

ReadOps == {"async_get_groups", "async_get_group", "async_get_users", "async_get_user",
            "async_get_refresh_token", "async_get_refresh_token_by_token",
            "async_get_refresh_tokens"}

\* the operations that request a save whenever they return
SavingOps == {"async_create_user", "async_link_user", "async_remove_user",
              "async_update_user", "async_activate_user", "async_deactivate_user",
              "async_remove_credentials", "async_create_refresh_token",
              "async_log_refresh_token_usage", "async_update_user_credentials_data"}

\* C19: every operation other than load that changes the in-memory state
\* requests a save with the default delay before it returns (so do the
\* operations that always save, whenever they return), and no read operation
\* changes anything or requests a save.
C19_MutationsSaveReadsDoNot ==
    [][ LET call == last_call'
            changed == << users, user_objs, groups, token_id_to_user_id, cred_objs >>'
                       # << users, user_objs, groups, token_id_to_user_id, cred_objs >>
        IN  /\ call.op \in ReadOps
               => call.saves = <<>> /\ UNCHANGED store_vars
            /\ ((call.op \notin {"async_load", "async_load:resume"} /\ changed)
                \/ (call.op \in SavingOps /\ call.err = None))
               => /\ call.saves = << DEFAULT_SAVE_DELAY >>
                  /\ pending_save' = DEFAULT_SAVE_DELAY
      ]_vars

\* C19 witness: on the store loaded without a document, a user was created
\* and linked to a credential, remove-credential has run, and a save with the
\* default delay is pending.
C19_Witness ==
    /\ load_pc = "done"
    /\ stored.kind = "absent"
    /\ n_calls = 3
    /\ last_call.op = "async_remove_credentials"
    /\ last_call.saves = << DEFAULT_SAVE_DELAY >>
    /\ pending_save = DEFAULT_SAVE_DELAY
    /\ Len(users) = 1
    /\ Get(user_objs, "user-1").credentials = <<>>
    /\ ~cred_objs[1].is_new

Document == Dict(data_to_save(UserValues, groups, cred_objs))

\* C21: the adapter honouring the lower of the delays, a state-changing call
\* that requests a save leaves a write pending that is due within the
\* default delay, also when the 300 s save of the load was pending; the time
\* left of a pending write runs down as time passes and time does not pass
\* beyond it; the write is a single one, of the document of the state at the
\* time of the write (the loaded and migrated data with the change), and
\* leaves no write pending.
C21_ShortestDelayWins ==
    [][ /\ (n_calls' # n_calls /\ last_call'.saves # <<>>) =>
              /\ pending_save' # NoSave
              /\ pending_save' <= DEFAULT_SAVE_DELAY
              /\ pending_save # NoSave => pending_save' <= pending_save
        /\ (now' # now /\ pending_save # NoSave) =>
              /\ pending_save > 0
              /\ pending_save' = pending_save - (now' - now)
        /\ (last_call'.op = "flush_save" /\ last_call'.err = None /\ now' = now) =>
              /\ pending_save # NoSave
              /\ pending_save' = NoSave
              /\ stored' = Document'
              /\ Document' = Document ]_vars

\* C21 witness: after a load that read the document, with its 300 s save
\* still pending and nothing written yet, one call changed the state and the
\* pending write is due within the default delay
C21_Witness ==
    /\ load_pc = "done"
    /\ stored = Dict(OpsData)
    /\ n_calls = 1
    /\ last_call.op = "async_create_user"
    /\ last_call.saves = << DEFAULT_SAVE_DELAY >>
    /\ pending_save = DEFAULT_SAVE_DELAY

\* the ids of the refresh-token records of the persisted document
StoredTokenIds ==
    IF stored.kind = "dict"
    THEN {stored.data.refresh_tokens[k].id : k \in 1..Len(stored.data.refresh_tokens)}
    ELSE {}

\* what async_get_refresh_token(token_id) finds in the state
Readable(token_id) ==
    /\ HasKey(token_id_to_user_id, token_id)
    /\ Get(token_id_to_user_id, token_id).user_id \in Range(users)
    /\ HasKey(Get(user_objs, Get(token_id_to_user_id, token_id).user_id).refresh_tokens,
              token_id)

\* C22: on a loaded store every change is visible to the reads at once (a
\* created user is among the users, a created refresh token is found by its
\* id), a write stores the serialization of the state at the time of the
\* write, and, the adapter eventually writing a pending request, a pending
\* save leads to a persisted document that is the serialization of the
\* state, and a refresh token of the index leads to a document that holds it
\* unless it is removed.
C22_VisibleAndDurable ==
    /\ [][ /\ (last_call'.op = "flush_save" /\ last_call'.err = None /\ now' = now) =>
                  stored' = Document'
           /\ (load_pc = "done" /\ n_users' # n_users) => last_call'.value \in Range(users')
           /\ (load_pc = "done" /\ n_tokens' # n_tokens) =>
                  \A t \in TokenIdUniverse : t = last_call'.value => Readable(t)' ]_vars
    /\ (load_pc = "done" /\ pending_save # NoSave) ~> (stored = Document)
    /\ \A t \in TokenIdUniverse :
          (load_pc = "done" /\ HasKey(token_id_to_user_id, t))
              ~> (t \in StoredTokenIds \/ ~HasKey(token_id_to_user_id, t))

(***************************************************************************)
(* Interleaving of callers                                                 *)
(***************************************************************************)
\* C23: the only await on the adapter is the one of async_load (every other
\* operation is one step), and in every state a caller can observe, before,
\* during and after the load, token_id_to_user_id holds exactly the refresh
\* tokens of the users in the store.
C23_IndexConsistentWhenObserved ==
    /\ load_pc \in {"idle", "reading", "done", "failed"}
    /\ IndexPairs = StoreTokenPairs

(***************************************************************************)
(* SpecCredentials: credentials linked to and removed from users, in any   *)
(* order, on a store whose document has two credential records of one id   *)
(***************************************************************************)
\* Two users, each with a credential record of id c1, and a refresh token
\* issued for the credential c1.
CredentialsData ==
    [SeedData EXCEPT !.users = << UserDict("u1", FALSE, << GROUP_ID_ADMIN >>),
                                  UserDict("u2", FALSE, << GROUP_ID_READ_ONLY >>) >>,
                     !.credentials = << CredDict("c1", "u1"), CredDict("c1", "u2") >>,
                     !.refresh_tokens = << TokenDict("t1", "u1", "secret-0", "c1") >>]

InitCredentials ==
    /\ InitStore
    /\ stored \in {Absent, Dict(CredentialsData)}

CreateUserWithCredentials ==
    \E credentials \in 1..Len(cred_objs) :
        /\ n_users < MaxNewUsers
        /\ async_create_user("Anne", <<>>, << TRUE >>, <<>>, credentials,
                             << GROUP_ID_ADMIN >>, <<>>)
        /\ Counted

LinkCredentials ==
    \E user \in Range(users), credentials \in 1..Len(cred_objs) :
        async_link_user(user, credentials) /\ Counted

NextCredentials ==
    \/ async_load
    \/ async_load_resume
    \/ CreateUserWithCredentials
    \/ LinkCredentials
    \/ RemoveCredentials

SpecCredentials == InitCredentials /\ [][NextCredentials]_vars

\* the places a Credentials object is held at: << user id, list position >>
Holders(credentials) ==
    UNION { { << UserValues[i].id, k >> :
                k \in {j \in 1..Len(UserValues[i].credentials) :
                          UserValues[i].credentials[j] = credentials} } :
            i \in 1..Len(users) }

\* C24: no Credentials object is in the credential lists of two users of the
\* store, or twice in the list of one, whatever create-user, link-user and
\* remove-credentials calls were made.
C24_OneOwningUser ==
    \A credentials \in 1..Len(cred_objs) : Cardinality(Holders(credentials)) <= 1

(***************************************************************************)
(* SpecUserGroups: the groups of the users, as loaded and as set by        *)
(* create-user and update-user                                             *)
(***************************************************************************)
\* The document of SeedData with u1 in the user group and the admin group.
TwoGroupsData ==
    [SeedData EXCEPT !.users[1].group_ids = << GROUP_ID_USER, GROUP_ID_ADMIN >>]

\* A document without group records whose user is in the admin group.
NoGroupRecordsData ==
    [users |-> << UserDict("u1", FALSE, << GROUP_ID_ADMIN >>) >>,
     groups |-> <<>>, credentials |-> <<>>, refresh_tokens |-> <<>>]

InitUserGroups ==
    /\ InitStore
    /\ stored \in {Absent, Dict(SeedData), Dict(TwoGroupsData), Dict(NoGroupRecordsData)}

GroupIdLists ==
    { <<>>, << GROUP_ID_ADMIN >>, << GROUP_ID_READ_ONLY, GROUP_ID_ADMIN >>,
      << GROUP_ID_USER, GROUP_ID_ADMIN >>, << GROUP_ID_ADMIN, GROUP_ID_ADMIN >> }

CreateUserAnyGroups ==
    \E group_ids \in GroupIdLists :
        /\ n_users < MaxNewUsers
        /\ async_create_user("Anne", <<>>, << TRUE >>, <<>>, NoneRef, group_ids, <<>>)
        /\ Counted

UpdateUserAnyGroups ==
    \E user \in Range(users), group_ids \in GroupIdLists :
        async_update_user(user, None, <<>>, << group_ids >>, <<>>) /\ Counted

NextUserGroups ==
    \/ async_load
    \/ async_load_resume
    \/ CreateUserAnyGroups
    \/ UpdateUserAnyGroups

SpecUserGroups == InitUserGroups /\ [][NextUserGroups]_vars

\* no element occurs twice in the sequence
IsUnique(seq) == \A i, j \in 1..Len(seq) : seq[i] = seq[j] => i = j

\* C25: the groups of every user of the store are unique by group id, after
\* the load (with its rewrite of the user group and its migration append),
\* after create-user and after update-user.
C25_GroupsUniqueById ==
    \A i \in 1..Len(users) : IsUnique(UserValues[i].groups)

\* C26: on a loaded store the credential of every refresh token is None or
\* a Credentials object in the credential list of a user of the store, also
\* after remove-credentials, and every credential_id of the document the
\* store would write names a credential record of that document.
C26_CredentialLinkNeverDangles ==
    load_pc = "done" =>
        /\ \A i \in 1..Len(users) :
              \A k \in 1..Len(UserValues[i].refresh_tokens) :
                  \/ UserValues[i].refresh_tokens[k].credential = NoneRef
                  \/ Holders(UserValues[i].refresh_tokens[k].credential) # {}
        /\ LET doc == data_to_save(UserValues, groups, cred_objs)
           IN  \A k \in 1..Len(doc.refresh_tokens) :
                   \/ doc.refresh_tokens[k].credential_id = None
                   \/ \E j \in 1..Len(doc.credentials) :
                          doc.credentials[j].id = doc.refresh_tokens[k].credential_id

(***************************************************************************)
(* SpecExpiry: use and expiry of refresh tokens, as time passes            *)
(***************************************************************************)
\* The document of SeedData with two tokens of u1: t1 never expires, t2 has
\* the expiry 0 (the epoch).
ExpiryData ==
    [SeedData EXCEPT !.refresh_tokens =
        << TokenDict("t1", "u1", "secret-0", "c1"),
           [TokenDict("t2", "u1", "secret-9", None) EXCEPT !.expire_at = 0] >>]

InitExpiry ==
    /\ InitStore
    /\ stored \in {Absent, Dict(ExpiryData)}

LogUsage ==
    \E held \in HeldTokens, remote_ip \in {"10.0.0.1", None} :
        async_log_refresh_token_usage(held[1], held[2], remote_ip) /\ Counted

NextExpiry ==
    \/ async_load
    \/ async_load_resume
    \/ CreateRefreshTokenOps
    \/ LogUsage
    \/ SetExpiry
    \/ tick

SpecExpiry == InitExpiry /\ [][NextExpiry]_vars

\* the RefreshToken object of the call, before and after it
TokenBefore == Get(Get(user_objs, last_call'.arg.user).refresh_tokens,
                   last_call'.arg.refresh_token_id)

TokenAfter == Get(Get(user_objs', last_call'.arg.user).refresh_tokens,
                  last_call'.arg.refresh_token_id)

\* C27: async_log_refresh_token_usage sets last_used_at to the current time
\* and last_used_ip to the address given (None when none is given); an
\* expire_at that was not None becomes the new last_used_at plus the
\* refresh-token lifetime, and an expire_at of None stays None.
C27_LogUsageExtendsExpiry ==
    [][ (last_call'.op = "async_log_refresh_token_usage" /\ n_calls' # n_calls)
        => /\ TokenAfter.last_used_at = now
           /\ TokenAfter.last_used_ip = last_call'.arg.remote_ip
           /\ TokenAfter.expire_at =
                 IF TokenBefore.expire_at # NoneT
                 THEN timestamp(now) + REFRESH_TOKEN_EXPIRATION
                 ELSE NoneT ]_vars

\* C28: async_set_expiry with enable_expiry leaves a token whose expire_at
\* is set as it is and requests no save, and gives a token whose expire_at
\* is None the expiry of last_used_at (the current time if it was never
\* used) plus the refresh-token lifetime and requests a save, so that the
\* expiry is set afterwards and enabling again changes nothing; without
\* enable_expiry it sets expire_at to None and requests a save, whatever
\* expire_at was.
C28_SetExpiry ==
    [][ (last_call'.op = "async_set_expiry" /\ n_calls' # n_calls)
        => IF last_call'.arg.enable_expiry
           THEN /\ TokenAfter.expire_at # NoneT
                /\ IF TokenBefore.expire_at = NoneT
                   THEN /\ TokenAfter =
                             [TokenBefore EXCEPT !.expire_at =
                                 timestamp(IF TokenBefore.last_used_at # NoneT
                                           THEN TokenBefore.last_used_at ELSE now)
                                 + REFRESH_TOKEN_EXPIRATION]
                        /\ last_call'.saves = << DEFAULT_SAVE_DELAY >>
                        /\ pending_save' = async_delay_save(pending_save, DEFAULT_SAVE_DELAY)
                   ELSE /\ user_objs' = user_objs
                        /\ last_call'.saves = <<>>
                        /\ pending_save' = pending_save
           ELSE /\ TokenAfter = [TokenBefore EXCEPT !.expire_at = NoneT]
                /\ last_call'.saves = << DEFAULT_SAVE_DELAY >>
                /\ pending_save' = async_delay_save(pending_save, DEFAULT_SAVE_DELAY) ]_vars

\* C28 witness: a token that was used got its expiry enabled, and enabling
\* it once more has changed nothing and requested no save
C28_Witness ==
    /\ last_call.op = "async_set_expiry"
    /\ last_call.arg.enable_expiry
    /\ last_call.saves = <<>>
    /\ n_calls = 3
    /\ now = 1
    /\ LET refresh_token == Get(Get(user_objs, last_call.arg.user).refresh_tokens,
                                last_call.arg.refresh_token_id)
       IN  /\ refresh_token.last_used_at = 0
           /\ refresh_token.expire_at = timestamp(0) + REFRESH_TOKEN_EXPIRATION

\* the users of the store, by position, that hold the Credentials object
HoldingUsers(credentials) ==
    {i \in 1..Len(users) : \E k \in 1..Len(UserValues[i].credentials) :
                               UserValues[i].credentials[k] = credentials}

\* the least element of a non-empty set of numbers
Least(S) == CHOOSE n \in S : \A m \in S : n <= m

\* the list without its k-th entry
Without(seq, k) == [m \in 1..(Len(seq) - 1) |-> IF m < k THEN seq[m] ELSE seq[m + 1]]

\* C29: async_remove_credentials removes one entry, the first one that is
\* the Credentials object given, from the list of the first user in store
\* order that holds the object; every other entry of every user (the same
\* object once more, another object with the same id) stays in its place,
\* and when no user holds the object nothing changes.
C29_RemovesFirstIdenticalEntry ==
    [][ (last_call'.op = "async_remove_credentials" /\ last_call'.err = None
         /\ n_calls' # n_calls)
        => LET credentials == last_call'.arg
           IN  /\ users' = users
               /\ cred_objs' = cred_objs
               /\ IF HoldingUsers(credentials) = {}
                  THEN user_objs' = user_objs
                  ELSE LET user == UserValues[Least(HoldingUsers(credentials))]
                           found == Least({k \in 1..Len(user.credentials) :
                                              user.credentials[k] = credentials})
                       IN  \A u \in Keys(user_objs) :
                               Get(user_objs', u) =
                                   IF u = user.id
                                   THEN [user EXCEPT !.credentials = Without(@, found)]
                                   ELSE Get(user_objs, u) ]_vars

\* C29 witness: the object was removed from one list and is still in
\* another, next to a different object with the same id
C29_Witness ==
    /\ last_call.op = "async_remove_credentials"
    /\ last_call.err = None
    /\ Holders(last_call.arg) # {}
    /\ \E other \in 1..Len(cred_objs) :
          /\ other # last_call.arg
          /\ cred_objs[other].id = cred_objs[last_call.arg].id
          /\ Holders(other) # {}

\* the ids of the user records of a document
UserRecordIds(doc) == {doc.users[i].id : i \in 1..Len(doc.users)}

\* C30: in the document _data_to_save returns for any state of the store,
\* the record of a group has the key "policy" exactly when the group is not
\* system-generated, and the user_id of every credential record and of every
\* refresh-token record is the id of a user record of the document.
C30_DocumentWellFormed ==
    installed =>
        LET doc == data_to_save(UserValues, groups, cred_objs)
        IN  /\ Len(doc.groups) = Len(groups)
            /\ \A k \in 1..Len(groups) :
                  /\ doc.groups[k].id = groups[k].id
                  /\ ("policy" \in doc.groups[k].keys) <=> ~groups[k].system_generated
            /\ \A k \in 1..Len(doc.credentials) :
                  doc.credentials[k].user_id \in UserRecordIds(doc)
            /\ \A k \in 1..Len(doc.refresh_tokens) :
                  doc.refresh_tokens[k].user_id \in UserRecordIds(doc)

\* C30 witness: the document of a store with system groups and a custom
\* group, two users, two credentials and two refresh tokens
C30_Witness ==
    /\ installed
    /\ \E k \in 1..Len(groups) : ~groups[k].system_generated
    /\ \E k \in 1..Len(groups) : groups[k].system_generated
    /\ Len(users) = 2
    /\ Len(Document.data.credentials) = 2
    /\ Len(Document.data.refresh_tokens) = 2

(***************************************************************************)
(* Defaults of loaded refresh tokens                                       *)
(***************************************************************************)
\* the RefreshToken object loaded from a record that was kept
LoadedToken(rt_dict) == Get(Get(user_objs, rt_dict.user_id).refresh_tokens, rt_dict.id)

\* C31: a loaded refresh token has the token_type of its record when the
\* record has the key; when it has not, the type is system if the record's
\* client_id is None and normal otherwise.
C31_TokenTypeDefault ==
    LoadedDocument =>
        \A rt \in Range(stored.data.refresh_tokens) :
            Kept(rt) =>
                LoadedToken(rt).token_type =
                    IF "token_type" \in rt.keys THEN rt.token_type
                    ELSE IF rt.client_id = None THEN TOKEN_TYPE_SYSTEM
                    ELSE TOKEN_TYPE_NORMAL

\* C31 witness: a record without token_type and without client_id loaded as
\* a system token, and a record without client_id that carries the
\* long-lived type kept it
C31_Witness ==
    /\ LoadedDocument
    /\ Len(stored.data.refresh_tokens) = 2
    /\ LET first == stored.data.refresh_tokens[1]
           second == stored.data.refresh_tokens[2]
       IN  /\ "token_type" \notin first.keys
           /\ first.client_id = None
           /\ LoadedToken(first).token_type = TOKEN_TYPE_SYSTEM
           /\ "token_type" \in second.keys
           /\ second.client_id = None
           /\ LoadedToken(second).token_type = TOKEN_TYPE_LONG_LIVED_ACCESS_TOKEN

(***************************************************************************)
(* Credentials.is_new                                                      *)
(***************************************************************************)
\* C32: async_link_user appends the credential at the end of the user's
\* list and sets its is_new to FALSE; async_create_user with credentials
\* leaves the new user in the store with that one credential, is_new FALSE;
\* no step sets is_new of an object from FALSE to TRUE, the objects the load
\* constructs have is_new FALSE, and so has every credential a user holds.
C32_IsNewClearedOnLink ==
    /\ [](\A c \in 1..Len(cred_objs) : Holders(c) # {} => ~cred_objs[c].is_new)
    /\ [][ /\ Len(cred_objs') >= Len(cred_objs)
           /\ \A c \in 1..Len(cred_objs) : ~cred_objs[c].is_new => ~cred_objs'[c].is_new
           /\ \A c \in (Len(cred_objs) + 1)..Len(cred_objs') : ~cred_objs'[c].is_new
           /\ (last_call'.op = "async_link_user" /\ n_calls' # n_calls)
              => LET user == last_call'.arg.user
                     credentials == last_call'.arg.credentials
                 IN  /\ Get(user_objs', user).credentials =
                            Append(Get(user_objs, user).credentials, credentials)
                     /\ cred_objs' = [cred_objs EXCEPT ![credentials].is_new = FALSE]
           /\ (last_call'.op = "async_create_user" /\ n_users' # n_users)
              => LET new_user == Get(user_objs', last_call'.value)
                 IN  /\ last_call'.value \in Range(users')
                     /\ Len(new_user.credentials) = 1
                     /\ cred_objs' =
                            [cred_objs EXCEPT ![new_user.credentials[1]].is_new = FALSE]
         ]_vars

\* C32 witness: a credential of a provider, new before, was given to
\* async_create_user and then linked to a loaded user as well
C32_Witness ==
    /\ last_call.op = "async_link_user"
    /\ last_call.arg.credentials = 1
    /\ last_call.arg.user = "u1"
    /\ HasKey(user_objs, "u1")
    /\ HasKey(user_objs, "user-1")
    /\ Get(user_objs, "u1").credentials = << 2, 1 >>
    /\ Get(user_objs, "user-1").credentials = << 1 >>
    /\ ~cred_objs[1].is_new

(***************************************************************************)
(* Reads                                                                   *)
(***************************************************************************)
\* C33: async_get_refresh_token never raises; it returns the token when a
\* user of the store holds a token under the id and None for every other
\* id, whatever operations came before (create-refresh-token for a user
\* object that was removed from the store among them).
C33_GetRefreshTokenTotal ==
    [][ last_call'.op = "async_get_refresh_token"
        => /\ last_call'.err = None
           /\ last_call'.value =
                 IF \E i \in 1..Len(users) :
                        HasKey(UserValues[i].refresh_tokens, last_call'.arg)
                 THEN last_call'.arg ELSE None ]_vars

(***************************************************************************)
(* SpecUpdateUser: the fields of the users, updated with any subset of the *)
(* arguments                                                               *)
(***************************************************************************)
\* << name, is_active, group_ids, local_only >>: nothing given; a name; an
\* empty group list; groups in an order; an unknown group with everything
\* else given
UpdateArguments ==
    { << None, <<>>, <<>>, <<>> >>,
      << "Renamed", <<>>, <<>>, <<>> >>,
      << None, << FALSE >>, << <<>> >>, <<>> >>,
      << None, <<>>, << << GROUP_ID_READ_ONLY, GROUP_ID_ADMIN >> >>, << TRUE >> >>,
      << "Renamed", << FALSE >>, << << "group-unknown" >> >>, << TRUE >> >> }

UpdateUserFields ==
    \E user \in Range(users), a \in UpdateArguments :
        async_update_user(user, a[1], a[2], a[3], a[4]) /\ Counted

NextUpdateUser ==
    \/ async_load
    \/ async_load_resume
    \/ UpdateUserFields
    \/ ActivateUser
    \/ DeactivateUser

SpecUpdateUser == InitRoundTrip /\ [][NextUpdateUser]_vars

\* everything of the store but the User object `user` is as it was
OnlyUserChanged(user) ==
    /\ \A u \in Keys(user_objs) : u # user => Get(user_objs', u) = Get(user_objs, u)
    /\ KeySeq(user_objs') = KeySeq(user_objs)
    /\ UNCHANGED << users, groups, cred_objs, token_id_to_user_id, loaded, load_pc,
                    installed, perm_lookup, stored >>

\* C34: async_update_user sets the fields that are given and keeps those
\* that are not (name, is_active, local_only, groups); a group list that is
\* given, the empty one too, becomes the user's groups in its order; no
\* other user, no group, no credential, no refresh token and no index entry
\* changes, and a call that raises changes nothing.  async_activate_user
\* and async_deactivate_user change the is_active of their user only.
C34_UpdateUserFrame ==
    [][ /\ (last_call'.op = "async_update_user" /\ n_calls' # n_calls)
           => LET a == last_call'.arg
                  before == Get(user_objs, a.user)
              IN  IF last_call'.err # None
                  THEN user_objs' = user_objs /\ OnlyUserChanged(a.user)
                  ELSE /\ OnlyUserChanged(a.user)
                       /\ Get(user_objs', a.user) =
                             [before EXCEPT
                                 !.name = IF a.name = None THEN @ ELSE a.name,
                                 !.is_active = IF a.is_active = <<>> THEN @
                                               ELSE a.is_active[1],
                                 !.local_only = IF a.local_only = <<>> THEN @
                                                ELSE a.local_only[1],
                                 !.groups = IF a.group_ids = <<>> THEN @
                                            ELSE a.group_ids[1]]
        /\ (last_call'.op \in {"async_activate_user", "async_deactivate_user"}
            /\ n_calls' # n_calls)
           => /\ OnlyUserChanged(last_call'.arg)
              /\ Get(user_objs', last_call'.arg) =
                    [Get(user_objs, last_call'.arg) EXCEPT
                        !.is_active = (last_call'.op = "async_activate_user")]
      ]_vars

\* C34 witness: u1 was renamed, then given an empty group list and
\* is_active FALSE with no name: it has kept the new name, its credential
\* and its token, and u2 is as loaded
C34_Witness ==
    /\ last_call.op = "async_update_user"
    /\ last_call.err = None
    /\ last_call.arg.user = "u1"
    /\ last_call.arg.name = None
    /\ last_call.arg.group_ids = << <<>> >>
    /\ Get(user_objs, "u1").name = "Renamed"
    /\ Get(user_objs, "u1").groups = <<>>
    /\ ~Get(user_objs, "u1").is_active
    /\ Len(Get(user_objs, "u1").credentials) = 1
    /\ Len(Get(user_objs, "u1").refresh_tokens) = 1
    /\ Get(user_objs, "u2").groups = << GROUP_ID_READ_ONLY >>

(***************************************************************************)
(* SpecLoadFailure: loads that abort, and what the store is afterwards     *)
(***************************************************************************)
\* a dict without the key "users"
NoUsersKey == [kind |-> "no users", data |-> SeedData]

\* The document of SeedData whose user u1 is in a group that has no record.
UnknownGroupData ==
    [SeedData EXCEPT !.users[1].group_ids = << "group-unknown" >>]

\* The document of SeedData with a group record without policy, and u1 a
\* member of that group.
QuarantinedMemberData ==
    [SeedData EXCEPT !.groups = SystemGroupDicts \o << PolicylessGroup >>,
                     !.users[1].group_ids = << GROUP_ID_ADMIN, GROUP_ID_LEGACY >>]

\* The document of SeedData with a refresh token of a user that is not in it.
GhostTokenData ==
    [SeedData EXCEPT !.refresh_tokens[2].user_id = "ghost"]

InitLoadFailure ==
    /\ InitStore
    /\ stored \in {Absent, Unreadable, NoUsersKey, Dict(SeedData), Dict(OrphanData),
                   Dict(UnknownGroupData), Dict(QuarantinedMemberData),
                   Dict(GhostTokenData)}

NextLoadFailure ==
    \/ async_load
    \/ async_load_resume
    \/ GetUsers
    \/ GetGroups
    \/ GetRefreshTokens
    \/ CreateUserOps

SpecLoadFailure == InitLoadFailure /\ [][NextLoadFailure]_vars

\* the documents whose load aborts
Aborting ==
    {Unreadable, NoUsersKey, Dict(OrphanData), Dict(UnknownGroupData),
     Dict(QuarantinedMemberData), Dict(GhostTokenData)}

\* C35: async_load sets loaded before the adapter's read and installs the
\* users and the groups in the one step in which it returns, after groups,
\* users, credentials and refresh tokens were reconstructed; a load that
\* aborts (the adapter's read raises, a key is missing, a user names an
\* unknown group, a credential or a token an unknown user) requests no
\* save and leaves loaded TRUE with no users and no groups, for good: no
\* later call populates them and every later async_load raises the
\* already-loaded error.
C35_AbortedLoadStaysLoaded ==
    /\ [](load_pc \in {"reading", "failed"} => loaded /\ ~installed)
    /\ [](load_pc = "failed"
          => users = <<>> /\ groups = <<>> /\ token_id_to_user_id = <<>>
             /\ pending_save = NoSave)
    /\ [][ /\ (last_call'.op = "async_load:resume" /\ stored \in Aborting)
              => /\ load_pc' = "failed"
                 /\ last_call'.err # None
                 /\ last_call'.saves = <<>>
           /\ (load_pc = "idle" /\ load_pc' # "idle") => (loaded' /\ load_pc' = "reading")
           /\ (~installed /\ installed')
              => /\ last_call'.op = "async_load:resume"
                 /\ last_call'.err = None
                 /\ load_pc' = "done"
           /\ load_pc = "failed" => load_pc' = "failed"
           /\ (last_call'.op = "async_load" /\ load_pc = "failed")
              => last_call'.err = "RuntimeError"
         ]_vars

\* C35 witness: the adapter's read raised, and the load called again after
\* that has raised the already-loaded error
C35_Witness ==
    /\ stored = Unreadable
    /\ load_pc = "failed"
    /\ loaded
    /\ ~installed
    /\ last_call.op = "async_load"
    /\ last_call.err = "RuntimeError"

\* C36: while the first async_load is suspended in the adapter's read, the
\* store is loaded with no users and no groups, which is what every
\* operation running then sees; an async_load called then raises the
\* already-loaded error and changes nothing, the read is started only by
\* the call that found the store not loaded, and the first load completes
\* from the suspension with the users of the document.
C36_SecondLoadDuringRead ==
    /\ [](load_pc = "reading"
          => loaded /\ ~installed /\ users = <<>> /\ groups = <<>>)
    /\ [][ /\ (last_call'.op = "async_load" /\ load_pc = "reading")
              => /\ last_call'.err = "RuntimeError"
                 /\ UNCHANGED << load_pc, loaded, installed, users, user_objs, groups,
                                 token_id_to_user_id, stored, pending_save >>
           /\ (load_pc' = "reading" /\ load_pc # "reading")
              => ~loaded /\ load_pc = "idle"
           /\ last_call'.op = "async_load:resume"
              => /\ load_pc = "reading"
                 /\ load_pc' = "done"
                 /\ last_call'.err = None
                 /\ installed'
                 /\ users' = IF stored.kind = "dict" THEN KeySeq(stored.data.users)
                             ELSE <<>>
         ]_vars

\* C36 witness: a read of the users, called while the load is suspended,
\* found the store loaded and without its users
C36_Witness ==
    /\ load_pc = "reading"
    /\ loaded
    /\ last_call.op = "async_get_users"
    /\ last_call.err = "AttributeError"
    /\ stored = Dict(OpsData)

\* the ids of the groups the load reconstructs from the document: the
\* system groups, backfilled when they have no record, and the groups of
\* the records that are not quarantined
ReconstructedGroupIds ==
    SystemGroupIds \cup {gd.id : gd \in {r \in Range(stored.data.groups) : ~PolicyLess(r)}}

\* a user record names a group the load has not reconstructed
DanglingGroupReference ==
    \E ud \in Range(stored.data.users) :
        \E k \in 1..Len(PersistedGroupIds(ud)) :
            PersistedGroupIds(ud)[k] \notin ReconstructedGroupIds

\* C37: when a user record of the document names a group id that is not in
\* the reconstructed group set (a group without record, or a group that was
\* quarantined for having no policy), the load raises KeyError, installs
\* nothing and requests no save; a document of users and groups without
\* such a reference loads.
C37_DanglingGroupAbortsLoad ==
    [][ (last_call'.op = "async_load:resume" /\ stored.kind = "dict")
        => IF DanglingGroupReference
           THEN /\ last_call'.err = "KeyError"
                /\ load_pc' = "failed"
                /\ ~installed'
                /\ users' = <<>>
                /\ groups' = <<>>
                /\ last_call'.saves = <<>>
                /\ pending_save' = NoSave
           ELSE /\ last_call'.err = None
                /\ load_pc' = "done"
                /\ users' = KeySeq(stored.data.users)
      ]_vars

\* C37 witness: the document has the three system groups and a group
\* without policy of which the only user is a member, and its load failed
C37_Witness ==
    /\ load_pc = "failed"
    /\ last_call.err = "KeyError"
    /\ stored.data.groups = SystemGroupDicts \o << PolicylessGroup >>
    /\ Len(stored.data.users) = 1
    /\ stored.data.users[1].group_ids = << GROUP_ID_LEGACY >>
    /\ "group_ids" \in stored.data.users[1].keys

(***************************************************************************)
(* components/alexa/flash_briefings.py: AlexaFlashBriefingView.  A text is *)
(* the sequence of its code points, a byte string a sequence of bytes.     *)
(***************************************************************************)
HTTP_OK == 200
HTTP_UNAUTHORIZED == 401
HTTP_NOT_FOUND == 404

API_PASSWORD == "password"
CONF_PASSWORD == "password"

\* str.encode("utf-8") for code points below U+0800
RECURSIVE encode_utf8(_)
encode_utf8(text) ==
    IF text = <<>> THEN <<>>
    ELSE LET c == Head(text)
         IN  (IF c < 128 THEN << c >> ELSE << 192 + (c \div 64), 128 + (c % 64) >>)
             \o encode_utf8(Tail(text))

\* hmac.compare_digest on two bytes objects
compare_digest_bytes(a, b) == a = b

\* the values of a configured item and of an output item
NoneValue == [type |-> "NoneType", text |-> "", result |-> ""]
Str(text) == [type |-> "str", text |-> text, result |-> ""]
Template(text, result) == [type |-> "Template", text |-> text, result |-> result]

\* template.Template.async_render(parse_result=False)
async_render(value) == Str(value.result)

\* dt_util.utcnow().strftime(DATE_FORMAT)
strftime(utcnow) == [type |-> "str", text |-> "date", result |-> "", at |-> utcnow]

\* item.get(key)
ItemGet(item, key) == IF key \in item.keys THEN item[key] ELSE NoneValue

\* the flash_briefings configuration given to __init__: the password "pe" with
\* an acute accent and three briefings
PasswordText == << 112, 233 >>

WeatherItems ==
    << [keys |-> {"title", "text", "uid"}, title |-> Str("Weather"),
        text |-> Template("{{ states('weather.home') }}", "sunny"),
        uid |-> Str("uid-weather"), audio |-> NoneValue, display_url |-> NoneValue],
       [keys |-> {"title", "audio", "display_url"}, title |-> Template("{{ now() }}", "Today"),
        text |-> NoneValue, uid |-> NoneValue, audio |-> Str("https://a/b.mp3"),
        display_url |-> Template("{{ url }}", "https://a") ] >>

NewsItems ==
    << [keys |-> {}, title |-> NoneValue, text |-> NoneValue, uid |-> NoneValue,
        audio |-> NoneValue, display_url |-> NoneValue] >>

flash_briefings ==
    << [id |-> CONF_PASSWORD, islist |-> FALSE, text |-> PasswordText, items |-> <<>>],
       [id |-> "weather", islist |-> TRUE, text |-> <<>>, items |-> WeatherItems],
       [id |-> "news", islist |-> TRUE, text |-> <<>>, items |-> NewsItems],
       [id |-> "empty", islist |-> TRUE, text |-> <<>>, items |-> <<>>] >>

\* isinstance(self.flash_briefings.get(briefing_id), list)
is_briefing_list(briefing_id) ==
    HasKey(flash_briefings, briefing_id) /\ Get(flash_briefings, briefing_id).islist

\* the body of the loop at lines 117-137
briefing_output(item, uuid, utcnow) ==
    [keys |-> {"uid", "update_date"}
              \cup {k \in {"title", "text", "audio", "display_url"} :
                        ItemGet(item, k) # NoneValue},
     title_text |-> IF ItemGet(item, "title") = NoneValue THEN NoneValue
                    ELSE IF item.title.type = "Template" THEN async_render(item.title)
                    ELSE ItemGet(item, "title"),
     main_text |-> IF ItemGet(item, "text") = NoneValue THEN NoneValue
                   ELSE IF item.text.type = "Template" THEN async_render(item.text)
                   ELSE ItemGet(item, "text"),
     uid |-> IF ItemGet(item, "uid") = NoneValue THEN Str(uuid) ELSE ItemGet(item, "uid"),
     stream_url |-> IF ItemGet(item, "audio") = NoneValue THEN NoneValue
                    ELSE IF item.audio.type = "Template" THEN async_render(item.audio)
                    ELSE ItemGet(item, "audio"),
     redirection_url |-> IF ItemGet(item, "display_url") = NoneValue THEN NoneValue
                         ELSE IF item.display_url.type = "Template"
                         THEN async_render(item.display_url)
                         ELSE ItemGet(item, "display_url"),
     update_date |-> strftime(utcnow)]

Response(status, kind, items) == [status |-> status, kind |-> kind, items |-> items]

\* mutant: the briefing id is looked up before the password is checked
get_briefing_id_first(query, briefing_id, uuids, utcnow) ==
    IF ~is_briefing_list(briefing_id)
    THEN Response(HTTP_NOT_FOUND, "bytes", <<>>)
    ELSE IF API_PASSWORD \notin query.keys
    THEN Response(HTTP_UNAUTHORIZED, "bytes", <<>>)
    ELSE IF ~compare_digest_bytes(encode_utf8(query.password), encode_utf8(PasswordText))
    THEN Response(HTTP_UNAUTHORIZED, "bytes", <<>>)
    ELSE Response(HTTP_OK, "json", <<>>)

\* AlexaFlashBriefingView.get; uuids[k] is the uuid4 drawn for the k-th item
get(query, briefing_id, uuids, utcnow) ==
    IF API_PASSWORD \notin query.keys
    THEN Response(HTTP_UNAUTHORIZED, "bytes", <<>>)
    ELSE IF ~compare_digest_bytes(encode_utf8(query.password),
                            encode_utf8(Get(flash_briefings, CONF_PASSWORD).text))
    THEN Response(HTTP_UNAUTHORIZED, "bytes", <<>>)
    ELSE IF ~is_briefing_list(briefing_id)
    THEN Response(HTTP_NOT_FOUND, "bytes", <<>>)
    ELSE LET items == Get(flash_briefings, briefing_id).items
         IN  Response(HTTP_OK, "json",
                      [k \in 1..Len(items) |-> briefing_output(items[k], uuids[k], utcnow)])

\* the requests: no password, the empty one, the configured one, a prefix of
\* it, and the text whose code points are the bytes of the configured one
Queries ==
    { [keys |-> {}, password |-> <<>>] }
    \cup { [keys |-> {API_PASSWORD}, password |-> p] :
             p \in { <<>>, << 112, 233 >>, << 112 >>, << 112, 195, 169 >> } }

BriefingIds == {"weather", "news", "empty", "password", "unknown"}

MaxItems == 2

FlashBriefingUuids == {"uuid-a", "uuid-b"}

FlashBriefingGet ==
    \E query \in Queries, briefing_id \in BriefingIds :
        \E uuids \in [1..MaxItems -> FlashBriefingUuids] :
            /\ Counted
            /\ last_call' = Returned("get", [query |-> query, briefing_id |-> briefing_id],
                                     get(query, briefing_id, uuids, now), <<>>)
            /\ UNCHANGED store_vars

InitFlashBriefing ==
    /\ InitStore
    /\ stored = Absent

NextFlashBriefing ==
    \/ FlashBriefingGet
    \/ tick

SpecFlashBriefing == InitFlashBriefing /\ [][NextFlashBriefing]_vars

\* the request carries the configured password
Authorized(query) == API_PASSWORD \in query.keys /\ query.password = PasswordText

\* C38: a GET without the configured password is answered 401 with an empty
\* body whatever the briefing id; 404 with an empty body is the answer to the
\* requests with the configured password whose briefing id has no configured
\* list, and to no other; every other request is answered 200 with one
\* output item per configured item, in the configured order, each with a
\* uid (the configured one when there is one) and the update date.
C38_PasswordBeforeBriefingId ==
    last_call.op = "get"
    =>     LET query == last_call.arg.query
               briefing_id == last_call.arg.briefing_id
               response == last_call.value
               configured == \E i \in 2..Len(flash_briefings) :
                                 flash_briefings[i].id = briefing_id
           IN  /\ ~Authorized(query)
                  => response = Response(HTTP_UNAUTHORIZED, "bytes", <<>>)
               /\ (response.status = HTTP_NOT_FOUND) = (Authorized(query) /\ ~configured)
               /\ response.status = HTTP_NOT_FOUND => response.kind = "bytes"
               /\ (response.status = HTTP_OK) = (Authorized(query) /\ configured)
               /\ response.status = HTTP_OK
                  => LET items == Get(flash_briefings, briefing_id).items
                     IN  /\ response.kind = "json"
                         /\ Len(response.items) = Len(items)
                         /\ \A k \in 1..Len(items) :
                              /\ {"uid", "update_date"} \subseteq response.items[k].keys
                              /\ response.items[k].uid.type = "str"
                              /\ "uid" \in items[k].keys
                                 => response.items[k].uid = items[k].uid
                              /\ "uid" \notin items[k].keys
                                 => response.items[k].uid.text \in FlashBriefingUuids
                              /\ response.items[k].update_date \in {strftime(t) : t \in 0..now}
                              /\ ("title" \in items[k].keys)
                                 = ("title" \in response.items[k].keys)
                              /\ "title" \in items[k].keys
                                 => response.items[k].title_text.text
                                    \in {items[k].title.text, items[k].title.result}

\* C38 witness: a request with a wrong password for a configured briefing
\* was answered 401 and the clock has advanced since
C38_Witness ==
    /\ last_call.op = "get"
    /\ last_call.arg.briefing_id = "weather"
    /\ last_call.arg.query.keys = {API_PASSWORD}
    /\ last_call.arg.query.password = << 112, 195, 169 >>
    /\ last_call.value.status = HTTP_UNAUTHORIZED
    /\ now = 1

====
